---- MODULE Spec2Model ----
(***************************************************************************)
(* The editing core of Quirks (src/src/*.rs): the rope-backed Buffer with  *)
(* its snapshot History, the Cursor, the Registers and the Editor's mode   *)
(* state machine, one key event per step.                                  *)
(*                                                                         *)
(* Text is a sequence of characters, each a string.  Buffer computes byte   *)
(* offsets and hands them to ropey's insert and remove, which take char    *)
(* indices: the two agree on ASCII text and differ after a character of    *)
(* more than one byte.  The key-driven specifications type ASCII only; the *)
(* Buffer-call specification also inserts a two-byte character.            *)
(***************************************************************************)
EXTENDS Integers, Sequences, FiniteSets, TLC

\* ------------------------------------------------------------------ bounds
\* Longest rope a key event may produce.
MaxLen == 3
\* Deepest undo stack a key event may produce in the key-driven specification.
MaxUndo == 2
\* Most numbered registers 1..9 a key event may fill.
MaxNumbered == 2
\* Longest numeric prefix a key event may produce.
MaxPrefix == 1
\* Delete-and-paste specification: longest rope and deepest undo stack.
MaxLenPaste == 3
MaxUndoPaste == 2
\* Whole-keyboard specification: longest rope and deepest undo stack.
MaxLenKeys == 1
MaxUndoKeys == 1
\* Buffer-call specification: undo stacks are explored up to HistWindow + 1
\* entries and from MAX_HISTORY_SIZE - HistWindow entries on, redo stacks up to
\* HistWindow entries, ropes up to HistLen characters.
HistWindow == 3
HistLen == 1
\* Capacity specification: undo stacks are explored up to CapWindow + 1 entries
\* and from MAX_HISTORY_SIZE - CapWindow entries on, redo stacks up to CapWindow.
CapWindow == 3
\* Bracket specification: longest rope.
MaxLenBracket == 4
\* Buffer-manager specification: most buffers open.
MaxBuffers == 5
\* Quit specification: longest rope and deepest undo stack.
MaxLenQuit == 2
MaxUndoQuit == 2
\* Scan specification: longest rope.
MaxLenScan == 3
\* Count specification: longest rope, deepest undo stack, most digits typed.
MaxLenCount == 2
MaxUndoCount == 3
MaxDigits == 10
\* Register-call specification: longest text a named register may reach.
MaxRegText == 2
\* Selection-call specification: largest line and column a call is handed.
MaxSel == 2
\* Buffer-edit specification: longest rope (in characters) and deepest undo stack.
MaxLenBuf == 2
MaxUndoBuf == 2
\* Cursor specification: longest rope; the cursor is set up to one beyond it.
MaxLenCur == 3
\* Search-call specification: longest rope searched.
MaxLenSearch == 3
\* Command-line specification: longest command line typed.
MaxCommandLen == 3
\* Visual-mode specification: longest rope and deepest undo stack.
\* Vertical-motion specification: longest rope.
MaxLenMove == 4
\* Save specification: longest rope and deepest undo stack.
MaxLenSave == 2
MaxUndoSave == 2
MaxLenVisual == 2
MaxUndoVisual == 2
\* Line-joining specification: longest rope.
MaxLenJoin == 4

\* ------------------------------------------------------- program constants
MAX_HISTORY_SIZE == 1000
VIEWPORT_HEIGHT == 24
SCROLL_MARGIN == 3
\* Registers.numbered: [Option<RegisterContent>; 10]
NUMBERED_SLOTS == 10
TAB_WIDTH == 4

NL == "\n"
SPACE == " "
None == "None"

Min(a, b) == IF a <= b THEN a ELSE b
Max(a, b) == IF a >= b THEN a ELSE b
\* usize::saturating_sub
SatSub(a, b) == IF a >= b THEN a - b ELSE 0

\* s[from..to) with 0-based offsets
Slice(s, from, to) == SubSeq(s, from + 1, to)
\* s with [from, to) removed
Remove(s, from, to) == SubSeq(s, 1, from) \o SubSeq(s, to + 1, Len(s))
\* s with t inserted at 0-based offset pos
InsertAt(s, pos, t) == SubSeq(s, 1, pos) \o t \o SubSeq(s, pos + 1, Len(s))

\* A character of two bytes in UTF-8 (U+00E9).
EACUTE == "e-acute"

\* char::len_utf8 on the characters of the model
len_utf8(c) == IF c = EACUTE THEN 2 ELSE 1

\* str::len / Rope::len_bytes: the length in bytes
len_bytes(s) == Len(s) + Cardinality({i \in 1..Len(s) : len_utf8(s[i]) = 2})

\* ------------------------------------------------------------ ropey::Rope
\* Rope::len_lines: the number of line breaks plus one.
len_lines(r) == 1 + Cardinality({i \in 1..Len(r) : r[i] = NL})

\* Rope::line_to_char(idx): the offset where line idx starts; idx = len_lines
\* gives len_chars (ropey panics beyond that).
line_to_char(r, idx) ==
    IF idx = 0 THEN 0
    ELSE IF idx >= len_lines(r) THEN Len(r)
    ELSE CHOOSE p \in 1..Len(r) :
            /\ r[p] = NL
            /\ Cardinality({i \in 1..p : r[i] = NL}) = idx

\* Rope::line(idx): the line with its line break, idx < len_lines.
rope_line(r, idx) == Slice(r, line_to_char(r, idx), line_to_char(r, idx + 1))

\* str::trim_end_matches('\n')
RECURSIVE trim_end_nl(_)
trim_end_nl(s) ==
    IF Len(s) > 0 /\ s[Len(s)] = NL THEN trim_end_nl(SubSeq(s, 1, Len(s) - 1)) ELSE s

IsWhitespace(c) == c \in {SPACE, NL}

\* str::trim_end
RECURSIVE trim_end(_)
trim_end(s) ==
    IF Len(s) > 0 /\ IsWhitespace(s[Len(s)]) THEN trim_end(SubSeq(s, 1, Len(s) - 1)) ELSE s

\* str::trim
RECURSIVE trim_start(_)
trim_start(s) ==
    IF Len(s) > 0 /\ IsWhitespace(s[1]) THEN trim_start(SubSeq(s, 2, Len(s))) ELSE s

trim(s) == trim_start(trim_end(s))

\* ---------------------------------------------------------------- History
Snapshot(content, line, col) == [content |-> content, cursor_line |-> line, cursor_col |-> col]

\* Option<Rope>
SomeRope(r) == [some |-> TRUE, rope |-> r]
NoRope == [some |-> FALSE, rope |-> <<>>]

History_new == [undo_stack |-> <<>>, redo_stack |-> <<>>, current_content |-> NoRope]

History_init(h, content, line, col) ==
    [undo_stack |-> <<Snapshot(content, line, col)>>,
     redo_stack |-> <<>>,
     current_content |-> SomeRope(content)]

\* History::record with the redo stack not cleared.
History_record_keep_redo(h, content, line, col) ==
    IF h.current_content.some /\ content = h.current_content.rope
    THEN h
    ELSE LET pushed == Append(h.undo_stack, Snapshot(content, line, col))
         IN  [h EXCEPT !.undo_stack = IF Len(pushed) > MAX_HISTORY_SIZE THEN Tail(pushed) ELSE pushed,
                       !.current_content = SomeRope(content)]

\* History::record without the change detection: every call pushes.
History_record_always_pushes(h, content, line, col) ==
    LET cleared == [h EXCEPT !.redo_stack = <<>>]
        pushed == Append(cleared.undo_stack, Snapshot(content, line, col))
    IN  [cleared EXCEPT
           !.undo_stack = IF Len(pushed) > MAX_HISTORY_SIZE THEN Tail(pushed) ELSE pushed,
           !.current_content = SomeRope(content)]

\* History::record with the newest entry dropped at capacity instead of the
\* oldest.
History_record_drops_newest(h, content, line, col) ==
    LET cleared == [h EXCEPT !.redo_stack = <<>>]
    IN  IF cleared.current_content.some
           /\ Len(content) = Len(cleared.current_content.rope)
           /\ content = cleared.current_content.rope
        THEN cleared
        ELSE LET pushed == Append(cleared.undo_stack, Snapshot(content, line, col))
             IN  [cleared EXCEPT
                    !.undo_stack = IF Len(pushed) > MAX_HISTORY_SIZE
                                   THEN SubSeq(pushed, 1, MAX_HISTORY_SIZE)
                                   ELSE pushed,
                    !.current_content = SomeRope(content)]

\* History::record: clears the redo stack; returns when the content equals
\* current_content (equal byte length and equal text); otherwise pushes the
\* snapshot, removes entry 0 once the stack exceeds MAX_HISTORY_SIZE, and
\* remembers the content.
History_record(h, content, line, col) ==
    LET cleared == [h EXCEPT !.redo_stack = <<>>]
    IN  IF cleared.current_content.some
           /\ Len(content) = Len(cleared.current_content.rope)
           /\ content = cleared.current_content.rope
        THEN cleared
        ELSE LET pushed == Append(cleared.undo_stack, Snapshot(content, line, col))
             IN  [cleared EXCEPT
                    !.undo_stack = IF Len(pushed) > MAX_HISTORY_SIZE THEN Tail(pushed) ELSE pushed,
                    !.current_content = SomeRope(content)]

\* Option<(Rope, usize, usize)>
NoRestore == [some |-> FALSE, content |-> <<>>, line |-> 0, col |-> 0]
SomeRestore(s) == [some |-> TRUE, content |-> s.content, line |-> s.cursor_line, col |-> s.cursor_col]

\* History::undo with the restored snapshot pushed for redo instead of the
\* caller's current state.
History_undo_redo_gets_restored(h, current_content, line, col) ==
    IF Len(h.undo_stack) <= 1
    THEN [h |-> h, ret |-> NoRestore]
    ELSE LET popped == SubSeq(h.undo_stack, 1, Len(h.undo_stack) - 1)
             top == popped[Len(popped)]
         IN  [h |-> [undo_stack |-> popped,
                     redo_stack |-> Append(h.redo_stack, top),
                     current_content |-> SomeRope(top.content)],
              ret |-> SomeRestore(top)]

\* History::undo with the length test off by one (undo allowed on the base).
History_undo_pops_base(h, current_content, line, col) ==
    IF Len(h.undo_stack) < 1
    THEN [h |-> h, ret |-> NoRestore]
    ELSE LET pushed == Append(h.redo_stack, Snapshot(current_content, line, col))
             popped == SubSeq(h.undo_stack, 1, Len(h.undo_stack) - 1)
         IN  IF Len(popped) > 0
             THEN [h |-> [undo_stack |-> popped, redo_stack |-> pushed,
                          current_content |-> SomeRope(popped[Len(popped)].content)],
                   ret |-> SomeRestore(popped[Len(popped)])]
             ELSE [h |-> [h EXCEPT !.undo_stack = popped, !.redo_stack = pushed],
                   ret |-> NoRestore]

\* History::undo: None with at most one entry; otherwise pushes the caller's
\* state on the redo stack, pops the undo stack and returns the new top.
History_undo(h, current_content, line, col) ==
    IF Len(h.undo_stack) <= 1
    THEN [h |-> h, ret |-> NoRestore]
    ELSE LET pushed == Append(h.redo_stack, Snapshot(current_content, line, col))
             popped == SubSeq(h.undo_stack, 1, Len(h.undo_stack) - 1)
         IN  IF Len(popped) > 0
             THEN [h |-> [undo_stack |-> popped, redo_stack |-> pushed,
                          current_content |-> SomeRope(popped[Len(popped)].content)],
                   ret |-> SomeRestore(popped[Len(popped)])]
             ELSE [h |-> [h EXCEPT !.undo_stack = popped, !.redo_stack = pushed],
                   ret |-> NoRestore]

\* History::redo: pops the redo stack, pushes the entry on the undo stack and
\* returns it; None when the redo stack is empty.
History_redo(h) ==
    IF Len(h.redo_stack) > 0
    THEN LET snapshot == h.redo_stack[Len(h.redo_stack)]
         IN  [h |-> [undo_stack |-> Append(h.undo_stack, snapshot),
                     redo_stack |-> SubSeq(h.redo_stack, 1, Len(h.redo_stack) - 1),
                     current_content |-> SomeRope(snapshot.content)],
              ret |-> SomeRestore(snapshot)]
    ELSE [h |-> h, ret |-> NoRestore]

History_can_undo(h) == Len(h.undo_stack) > 1
History_can_redo(h) == Len(h.redo_stack) > 0

\* ----------------------------------------------------------------- Buffer
\* Option<PathBuf>
NoPath == None

Buffer_new ==
    [rope |-> <<>>, file_path |-> NoPath, modified |-> FALSE,
     history |-> History_init(History_new, <<>>, 0, 0)]

\* Buffer::save: fs::write succeeds or fails (write_ok); without a path
\* nothing is written. The buffer afterwards and whether the result is Ok.
Buffer_save(b, write_ok) ==
    IF b.file_path # NoPath
    THEN IF write_ok THEN [b |-> [b EXCEPT !.modified = FALSE], ok |-> TRUE]
         ELSE [b |-> b, ok |-> FALSE]
    ELSE [b |-> b, ok |-> TRUE]

\* A save_as that takes the path before it writes.
Buffer_save_as_path_first(b, path, write_ok) ==
    IF write_ok THEN [b |-> [b EXCEPT !.file_path = path, !.modified = FALSE], ok |-> TRUE]
    ELSE [b |-> [b EXCEPT !.file_path = path], ok |-> FALSE]

\* Buffer::save_as
Buffer_save_as(b, path, write_ok) ==
    IF write_ok THEN [b |-> [b EXCEPT !.file_path = path, !.modified = FALSE], ok |-> TRUE]
    ELSE [b |-> b, ok |-> FALSE]

\* A line count that counts the line breaks only.
Buffer_line_count_breaks(b) == len_lines(b.rope) - 1

Buffer_line_count(b) == Max(len_lines(b.rope), 1)

Buffer_len(b) == len_bytes(b.rope)

\* Buffer::line: the line without its trailing newline; "" out of range.
Buffer_line(b, line_idx) ==
    IF line_idx >= len_lines(b.rope) THEN <<>>
    ELSE trim_end_nl(rope_line(b.rope, line_idx))

\* Buffer::line_len: graphemes of the line without its newline; 0 out of range.
Buffer_line_len(b, line_idx) ==
    IF line_idx >= len_lines(b.rope) THEN 0
    ELSE Len(trim_end_nl(rope_line(b.rope, line_idx)))

Buffer_line_to_byte(b, line_idx) ==
    IF line_idx >= len_lines(b.rope) THEN len_bytes(b.rope)
    ELSE len_bytes(SubSeq(b.rope, 1, line_to_char(b.rope, line_idx)))

\* Buffer::col_to_byte: the byte lengths of the first col graphemes of the line.
Buffer_col_to_byte(b, line_idx, col) ==
    IF line_idx >= len_lines(b.rope) THEN 0
    ELSE LET line == Buffer_line(b, line_idx)
         IN  len_bytes(SubSeq(line, 1, Min(col, Len(line))))

\* Rope::insert / Rope::insert_char panic beyond the end of the rope.
Buffer_insert_panics(b, byte_pos) == byte_pos > Len(b.rope)

Buffer_insert(b, byte_pos, text) ==
    [b EXCEPT !.rope = InsertAt(b.rope, byte_pos, text), !.modified = TRUE]

Buffer_insert_char(b, byte_pos, ch) == Buffer_insert(b, byte_pos, <<ch>>)

\* Buffer::delete hands its byte range to Rope::remove, which takes a char
\* range and panics when it ends beyond len_chars.
Buffer_delete_panics(b, start, end) ==
    start < end /\ end <= len_bytes(b.rope) /\ end > Len(b.rope)

Buffer_delete(b, start, end) ==
    IF start < end /\ end <= len_bytes(b.rope)
    THEN [b EXCEPT !.rope = Remove(b.rope, start, end), !.modified = TRUE]
    ELSE b

\* The Buffer::delete inside Buffer::delete_grapheme panics.
Buffer_delete_grapheme_panics(b, line, col) ==
    LET graphemes == Buffer_line(b, line)
    IN  IF col < Len(graphemes)
        THEN LET byte_start == Buffer_line_to_byte(b, line) + Buffer_col_to_byte(b, line, col)
             IN  Buffer_delete_panics(b, byte_start, byte_start + len_utf8(graphemes[col + 1]))
        ELSE IF col = Len(graphemes) /\ line < Buffer_line_count(b) - 1
        THEN LET byte_pos == Buffer_line_to_byte(b, line + 1) - 1
             IN  Buffer_delete_panics(b, byte_pos, byte_pos + 1)
        ELSE FALSE

Buffer_delete_grapheme(b, line, col) ==
    LET graphemes == Buffer_line(b, line)
    IN  IF col < Len(graphemes)
        THEN LET byte_start == Buffer_line_to_byte(b, line) + Buffer_col_to_byte(b, line, col)
             IN  Buffer_delete(b, byte_start, byte_start + len_utf8(graphemes[col + 1]))
        ELSE IF col = Len(graphemes) /\ line < Buffer_line_count(b) - 1
        THEN LET byte_pos == Buffer_line_to_byte(b, line + 1) - 1
             IN  Buffer_delete(b, byte_pos, byte_pos + 1)
        ELSE b

\* Buffer::backspace indexes graphemes[col - 1] unchecked, and its
\* Buffer::delete can panic.
Buffer_backspace_panics(b, line, col) ==
    IF col > 0
    THEN \/ col - 1 >= Len(Buffer_line(b, line))
         \/ LET byte_start == Buffer_line_to_byte(b, line) + Buffer_col_to_byte(b, line, col - 1)
            IN  Buffer_delete_panics(b, byte_start,
                                     byte_start + len_utf8(Buffer_line(b, line)[col]))
    ELSE IF line > 0
    THEN LET byte_pos == Buffer_line_to_byte(b, line) - 1
         IN  Buffer_delete_panics(b, byte_pos, byte_pos + 1)
    ELSE FALSE

\* Buffer::backspace: the buffer and the (line, col) it returns.
Buffer_backspace(b, line, col) ==
    IF col > 0
    THEN LET byte_start == Buffer_line_to_byte(b, line) + Buffer_col_to_byte(b, line, col - 1)
             byte_end == byte_start + len_utf8(Buffer_line(b, line)[col])
         IN  [b |-> Buffer_delete(b, byte_start, byte_end), line |-> line, col |-> col - 1]
    ELSE IF line > 0
    THEN LET prev_len == Buffer_line_len(b, line - 1)
             byte_pos == Buffer_line_to_byte(b, line) - 1
         IN  [b |-> Buffer_delete(b, byte_pos, byte_pos + 1), line |-> line - 1, col |-> prev_len]
    ELSE [b |-> b, line |-> line, col |-> col]

Buffer_checkpoint(b, cursor_line, cursor_col) ==
    [b EXCEPT !.history = History_record(b.history, b.rope, cursor_line, cursor_col)]

\* Option<(usize, usize)>
NoPos == [some |-> FALSE, line |-> 0, col |-> 0]
SomePos(line, col) == [some |-> TRUE, line |-> line, col |-> col]

\* Buffer::undo: the buffer and the cursor position it returns.
Buffer_undo(b, cursor_line, cursor_col) ==
    LET u == History_undo(b.history, b.rope, cursor_line, cursor_col)
    IN  IF u.ret.some
        THEN [b |-> [b EXCEPT !.history = u.h, !.rope = u.ret.content, !.modified = TRUE],
              ret |-> SomePos(u.ret.line, u.ret.col)]
        ELSE [b |-> [b EXCEPT !.history = u.h], ret |-> NoPos]

\* Buffer::redo
Buffer_redo(b) ==
    LET r == History_redo(b.history)
    IN  IF r.ret.some
        THEN [b |-> [b EXCEPT !.history = r.h, !.rope = r.ret.content, !.modified = TRUE],
              ret |-> SomePos(r.ret.line, r.ret.col)]
        ELSE [b |-> [b EXCEPT !.history = r.h], ret |-> NoPos]

\* Buffer::char_at: Option<char>
Buffer_char_at(b, line, col) ==
    IF line >= Buffer_line_count(b) THEN None
    ELSE LET graphemes == Buffer_line(b, line)
         IN  IF col >= Len(graphemes) THEN None ELSE graphemes[col + 1]

\* Buffer::delete_line: removes from the line's start to the next line's start
\* (to the end of the rope for the last line).
Buffer_delete_line(b, line) ==
    IF line >= Buffer_line_count(b) THEN b
    ELSE LET start == line_to_char(b.rope, line)
             end == IF line + 1 < Buffer_line_count(b)
                    THEN line_to_char(b.rope, line + 1)
                    ELSE Len(b.rope)
         IN  IF start < end
             THEN [b EXCEPT !.rope = Remove(b.rope, start, end), !.modified = TRUE]
             ELSE b

Buffer_insert_line_below(b, line, text) ==
    IF line + 1 < Buffer_line_count(b)
    THEN [b EXCEPT !.rope = InsertAt(b.rope, line_to_char(b.rope, line + 1), text),
                   !.modified = TRUE]
    ELSE LET len == Len(b.rope)
             ended == IF len > 0 /\ b.rope[len] # NL THEN Append(b.rope, NL) ELSE b.rope
         IN  [b EXCEPT !.rope = ended \o text, !.modified = TRUE]

\* Rope::line_to_char panics beyond len_lines.
Buffer_insert_line_above_panics(b, line) == line > len_lines(b.rope)

Buffer_insert_line_above(b, line, text) ==
    [b EXCEPT !.rope = InsertAt(b.rope, line_to_char(b.rope, line), text), !.modified = TRUE]

\* Buffer::join_lines: removes the newline ending the line, then inserts a
\* space after the joined line's trimmed text when that text is not empty.
\* Buffer::join_lines adds the byte length of the trimmed line to a char
\* index; Rope::insert_char panics beyond len_chars.
Buffer_join_lines_panics(b, line) ==
    IF line + 1 >= Buffer_line_count(b) THEN FALSE
    ELSE LET next_line_start == line_to_char(b.rope, line + 1)
             removed == Remove(b.rope, next_line_start - 1, next_line_start)
             trimmed == trim_end(rope_line(removed, line))
         IN  /\ Len(trimmed) > 0
             /\ trimmed[Len(trimmed)] # SPACE
             /\ line_to_char(removed, line) + len_bytes(trimmed) > Len(removed)

Buffer_join_lines(b, line) ==
    IF line + 1 >= Buffer_line_count(b) THEN b
    ELSE LET next_line_start == line_to_char(b.rope, line + 1)
             newline_pos == next_line_start - 1
             removed == Remove(b.rope, newline_pos, next_line_start)
             current_line == rope_line(removed, line)
             trimmed == trim_end(current_line)
         IN  IF Len(trimmed) > 0 /\ trimmed[Len(trimmed)] # SPACE
             THEN [b EXCEPT !.rope = InsertAt(removed,
                                              line_to_char(removed, line) + len_bytes(trimmed),
                                              <<SPACE>>),
                            !.modified = TRUE]
             ELSE [b EXCEPT !.rope = removed, !.modified = TRUE]

Spaces(n) == [i \in 1..n |-> SPACE]

Buffer_indent_line(b, line, spaces) ==
    IF line >= Buffer_line_count(b) THEN b
    ELSE [b EXCEPT !.rope = InsertAt(b.rope, line_to_char(b.rope, line), Spaces(spaces)),
                   !.modified = TRUE]

RECURSIVE LeadingSpaces(_)
LeadingSpaces(s) == IF Len(s) > 0 /\ s[1] = SPACE THEN 1 + LeadingSpaces(Tail(s)) ELSE 0

Buffer_outdent_line(b, line, max_spaces) ==
    IF line >= Buffer_line_count(b) THEN b
    ELSE LET to_remove == Min(LeadingSpaces(rope_line(b.rope, line)), max_spaces)
             start == line_to_char(b.rope, line)
         IN  IF to_remove > 0
             THEN [b EXCEPT !.rope = Remove(b.rope, start, start + to_remove), !.modified = TRUE]
             ELSE b

\* ----------------------------------------------------------------- Cursor
Cursor_new == [line |-> 0, col |-> 0, sticky_col |-> 0]

Cursor_move_left(c, b) ==
    LET moved == IF c.col > 0 THEN [c EXCEPT !.col = c.col - 1]
                 ELSE IF c.line > 0
                 THEN [c EXCEPT !.line = c.line - 1, !.col = Buffer_line_len(b, c.line - 1)]
                 ELSE c
    IN  [moved EXCEPT !.sticky_col = moved.col]

Cursor_move_right(c, b) ==
    LET moved == IF c.col < Buffer_line_len(b, c.line) THEN [c EXCEPT !.col = c.col + 1]
                 ELSE IF c.line < SatSub(Buffer_line_count(b), 1)
                 THEN [c EXCEPT !.line = c.line + 1, !.col = 0]
                 ELSE c
    IN  [moved EXCEPT !.sticky_col = moved.col]

Cursor_move_up(c, b) ==
    IF c.line > 0
    THEN [c EXCEPT !.line = c.line - 1,
                   !.col = Min(c.sticky_col, Buffer_line_len(b, c.line - 1))]
    ELSE c

\* A move_down that takes the clamped column as the new sticky column.
Cursor_move_down_resticks(c, b) ==
    IF c.line < SatSub(Buffer_line_count(b), 1)
    THEN [c EXCEPT !.line = c.line + 1,
                   !.col = Min(c.sticky_col, Buffer_line_len(b, c.line + 1)),
                   !.sticky_col = Min(c.sticky_col, Buffer_line_len(b, c.line + 1))]
    ELSE c

Cursor_move_down(c, b) ==
    IF c.line < SatSub(Buffer_line_count(b), 1)
    THEN [c EXCEPT !.line = c.line + 1,
                   !.col = Min(c.sticky_col, Buffer_line_len(b, c.line + 1))]
    ELSE c

Cursor_move_to_line_start(c) == [c EXCEPT !.col = 0, !.sticky_col = 0]

Cursor_move_to_line_end(c, b) ==
    [c EXCEPT !.col = Buffer_line_len(b, c.line), !.sticky_col = Buffer_line_len(b, c.line)]

Cursor_move_to_buffer_start(c) == [line |-> 0, col |-> 0, sticky_col |-> 0]

Cursor_move_to_buffer_end(c, b) ==
    LET last == SatSub(Buffer_line_count(b), 1)
    IN  [line |-> last, col |-> Buffer_line_len(b, last), sticky_col |-> Buffer_line_len(b, last)]

\* A clamp that leaves the column alone.
Cursor_clamp_line_only(c, b) ==
    [c EXCEPT !.line = Min(c.line, Buffer_line_count(b) - 1)]

Cursor_clamp(c, b) ==
    LET line_count == Buffer_line_count(b)
    IN  IF line_count = 0 THEN [c EXCEPT !.line = 0, !.col = 0]
        ELSE LET line == Min(c.line, line_count - 1)
             IN  [c EXCEPT !.line = line, !.col = Min(c.col, Buffer_line_len(b, line))]

Cursor_byte_offset(c, b) == Buffer_line_to_byte(b, c.line) + Buffer_col_to_byte(b, c.line, c.col)

\* The position of a loop after one turn: done when the turn returned, found
\* when it returned a position.
Turn(done, line, col) ==
    [done |-> done, line |-> line, col |-> col, depth |-> 0, found |-> done, panic |-> FALSE]

\* char_type: whitespace, word characters (alphanumeric and _), punctuation.
PunctuationChars ==
    {"(", ")", "[", "]", "{", "}", "<", ">", ".", ",", ";", ":", "?", "!", "~", "$", "-", "+"}

char_type(c) ==
    IF IsWhitespace(c) THEN "Whitespace"
    ELSE IF c \in PunctuationChars THEN "Punctuation"
    ELSE "Word"

\* while col < chars.len() && P(chars[col]) { col += 1 }
skip_while(chars, col, P(_)) ==
    IF col >= Len(chars) THEN col
    ELSE LET stops == {i \in col..Len(chars) : i = Len(chars) \/ ~P(chars[i + 1])}
         IN  CHOOSE i \in stops : \A j \in stops : i <= j

\* while col > 0 && P(col) { col -= 1 }
skip_back_while(col, P(_)) ==
    LET stops == {i \in 0..col : i = 0 \/ ~P(i)}
    IN  CHOOSE i \in stops : \A j \in stops : i >= j

\* The loop of Cursor::move_word_forward from (line, col).
RECURSIVE word_forward_from(_, _, _)
word_forward_from(b, line, col) ==
    LET chars == Buffer_line(b, line)
        past_word == IF col < Len(chars)
                     THEN skip_while(chars, col,
                                     LAMBDA ch : char_type(ch) = char_type(chars[col + 1]))
                     ELSE col
        past_space == skip_while(chars, past_word, IsWhitespace)
        next_chars == Buffer_line(b, line + 1)
        next_col == skip_while(next_chars, 0, IsWhitespace)
    IN  IF past_space < Len(chars) THEN <<line, past_space>>
        ELSE IF line + 1 < Buffer_line_count(b)
        THEN IF next_col < Len(next_chars) THEN <<line + 1, next_col>>
             ELSE word_forward_from(b, line + 1, next_col)
        ELSE <<line, SatSub(Len(chars), 1)>>

Cursor_move_word_forward(c, b) ==
    IF Buffer_line_count(b) = 0 THEN c
    ELSE LET at == word_forward_from(b, c.line, c.col)
         IN  [line |-> at[1], col |-> at[2], sticky_col |-> at[2]]

\* chars.get(i).map_or(false, |c| c.is_whitespace())
is_space_at(chars, i) == i < Len(chars) /\ IsWhitespace(chars[i + 1])

\* The loop of Cursor::move_word_backward from (line, col): where it ends,
\* or the index panic of chars[col] beyond the line. `back` is the column
\* after the step back and the whitespace skipped (col = 0 steps a line up).
RECURSIVE word_backward_from(_, _, _)
word_backward_at(b, line, col, chars, back) ==
    IF col = 0 \/ is_space_at(chars, back)
    THEN IF line > 0
         THEN word_backward_from(b, line - 1, SatSub(Len(Buffer_line(b, line - 1)), 1))
         ELSE [line |-> 0, col |-> 0, panic |-> FALSE]
    ELSE IF back >= Len(chars) THEN [line |-> line, col |-> back, panic |-> TRUE]
    ELSE [line |-> line, panic |-> FALSE,
          col |-> skip_back_while(back, LAMBDA i : char_type(chars[i])
                                                      = char_type(chars[back + 1]))]

word_backward_in(b, line, col, chars) ==
    word_backward_at(b, line, col, chars,
                     IF col = 0 THEN 0
                     ELSE skip_back_while(col - 1, LAMBDA i : is_space_at(chars, i)))

word_backward_from(b, line, col) == word_backward_in(b, line, col, Buffer_line(b, line))

Cursor_move_word_backward_panics(c, b) ==
    Buffer_line_count(b) # 0 /\ word_backward_from(b, c.line, c.col).panic

Cursor_move_word_backward(c, b) ==
    IF Buffer_line_count(b) = 0 THEN c
    ELSE LET at == word_backward_from(b, c.line, c.col)
         IN  [line |-> at.line, col |-> at.col, sticky_col |-> at.col]

\* The loop of Cursor::move_word_end from (line, col).
RECURSIVE word_end_from(_, _, _)
word_end_from(b, line, col) ==
    LET chars == Buffer_line(b, line)
        word == skip_while(chars, col, IsWhitespace)
        past_word == skip_while(chars, word,
                                LAMBDA ch : char_type(ch) = char_type(chars[word + 1]))
    IN  IF word >= Len(chars)
        THEN IF line + 1 < Buffer_line_count(b) THEN word_end_from(b, line + 1, 0)
             ELSE <<line, SatSub(Len(chars), 1)>>
        ELSE <<line, past_word - 1>>

Cursor_move_word_end(c, b) ==
    IF Buffer_line_count(b) = 0 THEN c
    ELSE LET at == IF c.col + 1 < Buffer_line_len(b, c.line)
                   THEN word_end_from(b, c.line, c.col + 1)
                   ELSE IF c.line + 1 < Buffer_line_count(b)
                   THEN word_end_from(b, c.line + 1, 0)
                   ELSE word_end_from(b, c.line, c.col)
         IN  [line |-> at[1], col |-> at[2], sticky_col |-> at[2]]

\* One turn of the loop of Cursor::move_word_end that goes on to the next line
\* without leaving the line it is on.
word_end_turn_stays(b, line, col) ==
    LET chars == Buffer_line(b, line)
        word == skip_while(chars, col, IsWhitespace)
    IN  IF word >= Len(chars)
        THEN IF line + 1 < Buffer_line_count(b) THEN Turn(FALSE, line, 0)
             ELSE Turn(TRUE, line, SatSub(Len(chars), 1))
        ELSE Turn(TRUE, line,
                  skip_while(chars, word,
                             LAMBDA ch : char_type(ch) = char_type(chars[word + 1])) - 1)

\* One turn of the loop of Cursor::move_word_forward at (line, col): the
\* position it returns (done) or the one it goes round again with.
word_forward_turn(b, line, col) ==
    LET chars == Buffer_line(b, line)
        past_word == IF col < Len(chars)
                     THEN skip_while(chars, col,
                                     LAMBDA ch : char_type(ch) = char_type(chars[col + 1]))
                     ELSE col
        past_space == skip_while(chars, past_word, IsWhitespace)
        next_chars == Buffer_line(b, line + 1)
        next_col == skip_while(next_chars, 0, IsWhitespace)
    IN  IF past_space < Len(chars) THEN Turn(TRUE, line, past_space)
        ELSE IF line + 1 < Buffer_line_count(b)
        THEN Turn(next_col < Len(next_chars), line + 1, next_col)
        ELSE Turn(TRUE, line, SatSub(Len(chars), 1))

\* One turn of the loop of Cursor::move_word_backward, from the column `back`
\* reached over the whitespace before col - 1.
word_backward_turn_at(b, line, chars, back) ==
    IF is_space_at(chars, back)
    THEN IF line > 0 THEN Turn(FALSE, line - 1, SatSub(Len(Buffer_line(b, line - 1)), 1))
         ELSE Turn(TRUE, 0, 0)
    ELSE IF back >= Len(chars) THEN [Turn(TRUE, line, back) EXCEPT !.panic = TRUE]
    ELSE Turn(TRUE, line,
              skip_back_while(back, LAMBDA i : char_type(chars[i]) = char_type(chars[back + 1])))

\* One turn of the loop of Cursor::move_word_backward at (line, col).
word_backward_turn(b, line, col) ==
    IF col > 0
    THEN word_backward_turn_at(b, line, Buffer_line(b, line),
                               skip_back_while(col - 1,
                                               LAMBDA i : is_space_at(Buffer_line(b, line), i)))
    ELSE IF line > 0 THEN Turn(FALSE, line - 1, SatSub(Len(Buffer_line(b, line - 1)), 1))
    ELSE Turn(TRUE, 0, 0)

\* Where Cursor::move_word_end enters its loop: one step forward first.
word_end_start(b, line, col) ==
    IF col + 1 < Len(Buffer_line(b, line)) THEN Turn(FALSE, line, col + 1)
    ELSE IF line + 1 < Buffer_line_count(b) THEN Turn(FALSE, line + 1, 0)
    ELSE Turn(FALSE, line, col)

\* One turn of the loop of Cursor::move_word_end at (line, col).
word_end_turn(b, line, col) ==
    LET chars == Buffer_line(b, line)
        word == skip_while(chars, col, IsWhitespace)
    IN  IF word >= Len(chars)
        THEN IF line + 1 < Buffer_line_count(b) THEN Turn(FALSE, line + 1, 0)
             ELSE Turn(TRUE, line, SatSub(Len(chars), 1))
        ELSE Turn(TRUE, line,
                  skip_while(chars, word,
                             LAMBDA ch : char_type(ch) = char_type(chars[word + 1])) - 1)

\* Cursor::move_to_first_non_whitespace: the column of the first character
\* of the line that is no whitespace (the end of a blank line).
Cursor_move_to_first_non_whitespace(c, b) ==
    LET col == skip_while(Buffer_line(b, c.line), 0, IsWhitespace)
    IN  [c EXCEPT !.col = col, !.sticky_col = col]

\* -------------------------------------------------------------- Registers
\* Option<RegisterContent>: Chars(text), Lines(text) or None.
NoContent == [kind |-> None, text |-> <<>>]
Chars(text) == [kind |-> "Chars", text |-> text]
Lines(text) == [kind |-> "Lines", text |-> text]

\* The named registers the model keeps (a HashMap in the code: absent = None).
NamedLetters == {"a", "b"}

Registers_new ==
    [named |-> [l \in NamedLetters |-> NoContent],
     unnamed |-> NoContent,
     small_delete |-> NoContent,
     numbered |-> [i \in 1..10 |-> NoContent]]

Registers_get_unnamed(r) == r.unnamed

\* A yank that also takes the small-delete register.
Registers_yank_small(r, content) ==
    [r EXCEPT !.numbered[1] = content, !.unnamed = content, !.small_delete = content]

\* Registers::yank: numbered[0] and the unnamed register.
Registers_yank(r, content) ==
    [r EXCEPT !.numbered[1] = content, !.unnamed = content]

\* A delete that overwrites slot 1 without shifting the older deletes.
Registers_delete_overwrites(r, content) ==
    LET is_small == content.kind = "Chars"
                    /\ \A i \in 1..Len(content.text) : content.text[i] # NL
    IN  IF is_small
        THEN [r EXCEPT !.small_delete = content, !.unnamed = content]
        ELSE [r EXCEPT !.numbered[2] = content, !.unnamed = content]

\* A delete that treats every content as a big one.
Registers_delete_always_numbered(r, content) ==
    [r EXCEPT !.numbered = [i \in 1..10 |->
                    IF i = 1 THEN r.numbered[1]
                    ELSE IF i = 2 THEN content
                    ELSE r.numbered[i - 1]],
              !.unnamed = content]

\* Registers::delete: a character-wise content without newline goes to the
\* small-delete register; anything else shifts numbered 1..8 to 2..9 and
\* takes slot 1.  The unnamed register is set either way.
Registers_delete(r, content) ==
    LET is_small == content.kind = "Chars"
                    /\ \A i \in 1..Len(content.text) : content.text[i] # NL
    IN  IF is_small
        THEN [r EXCEPT !.small_delete = content, !.unnamed = content]
        ELSE [r EXCEPT !.numbered = [i \in 1..10 |->
                            IF i = 1 THEN r.numbered[1]
                            ELSE IF i = 2 THEN content
                            ELSE r.numbered[i - 1]],
                       !.unnamed = content]

\* RegisterContent::Block(Vec<String>): the text field holds the lines.
Block(lines) == [kind |-> "Block", text |-> lines]

\* char::is_ascii_uppercase / is_ascii_lowercase / to_ascii_lowercase on the
\* register names the model uses: a, b, A, B, and the non-letters.
is_ascii_uppercase(name) == name \in {"A", "B"}
is_ascii_lowercase(name) == name \in {"a", "b"}
to_ascii_lowercase(name) ==
    CASE name = "A" -> "a"
      [] name = "B" -> "b"
      [] OTHER -> name

\* A set_named that replaces under an uppercase name too.
Registers_set_named_replaces(r, name, content) ==
    IF is_ascii_uppercase(name) \/ is_ascii_lowercase(name)
    THEN [r EXCEPT !.named[to_ascii_lowercase(name)] = content]
    ELSE r

\* Registers::set_named: an uppercase name appends to the lowercase slot when
\* both contents are Chars or both are Lines, and inserts otherwise; a
\* lowercase name inserts; any other name does nothing.
Registers_set_named(r, name, content) ==
    IF is_ascii_uppercase(name)
    THEN LET lower == to_ascii_lowercase(name)
             existing == r.named[lower]
         IN  IF existing.kind # None
             THEN IF existing.kind = "Chars" /\ content.kind = "Chars"
                  THEN [r EXCEPT !.named[lower] = Chars(existing.text \o content.text)]
                  ELSE IF existing.kind = "Lines" /\ content.kind = "Lines"
                  THEN [r EXCEPT !.named[lower] = Lines(existing.text \o content.text)]
                  ELSE [r EXCEPT !.named[lower] = content]
             ELSE [r EXCEPT !.named[lower] = content]
    ELSE IF is_ascii_lowercase(name)
    THEN [r EXCEPT !.named[name] = content]
    ELSE r

\* Registers::get_named
Registers_get_named(r, name) == r.named[to_ascii_lowercase(name)]

\* ----------------------------------------------------------- BufferManager
BufferManager_new == [buffers |-> <<>>, current |-> 0]

BufferManager_next_buffer(m) ==
    IF Len(m.buffers) > 0 THEN [m EXCEPT !.current = (m.current + 1) % Len(m.buffers)] ELSE m

BufferManager_prev_buffer(m) ==
    IF Len(m.buffers) > 0
    THEN [m EXCEPT !.current = IF m.current = 0 THEN Len(m.buffers) - 1 ELSE m.current - 1]
    ELSE m

\* Buffer::from_file: the content read, the path, not modified.
Buffer_from_file(path, content) ==
    [rope |-> content, file_path |-> path, modified |-> FALSE,
     history |-> History_init(History_new, content, 0, 0)]

\* BufferManager::open_file: the file is read (read_ok) and its buffer pushed
\* and made current, or the error is returned.
BufferManager_open_file(m, path, content, read_ok) ==
    IF read_ok
    THEN [m |-> [buffers |-> Append(m.buffers, Buffer_from_file(path, content)),
                 current |-> Len(m.buffers)],
          ok |-> TRUE]
    ELSE [m |-> m, ok |-> FALSE]

\* BufferManager::switch_to
BufferManager_switch_to(m, idx) ==
    IF idx >= Len(m.buffers) THEN [m |-> m, ok |-> FALSE]
    ELSE [m |-> [m EXCEPT !.current = idx], ok |-> TRUE]

\* Vec::remove(index)
Vec_remove(v, index) == SubSeq(v, 1, index) \o SubSeq(v, index + 2, Len(v))

\* A close_current that leaves the index where it was.
BufferManager_close_current_unclamped(m) ==
    IF m.buffers = <<>> THEN m
    ELSE [m EXCEPT !.buffers = Vec_remove(m.buffers, m.current)]

\* BufferManager::close_current
BufferManager_close_current(m) ==
    IF m.buffers = <<>> THEN m
    ELSE IF m.current >= Len(m.buffers) - 1 /\ Len(m.buffers) - 1 # 0
    THEN [buffers |-> Vec_remove(m.buffers, m.current), current |-> Len(m.buffers) - 2]
    ELSE [m EXCEPT !.buffers = Vec_remove(m.buffers, m.current)]

\* BufferManager::current_buffer indexes buffers[current] unchecked.
BufferManager_current_buffer_panics(m) == m.current >= Len(m.buffers)

BufferManager_current_buffer(m) == m.buffers[m.current + 1]

\* ------------------------------------------------------------ key events
\* crossterm KeyEvent: the key code, its character (Char keys) and whether
\* the Control modifier is held.
Key(code, ch, ctrl) == [code |-> code, ch |-> ch, ctrl |-> ctrl]
Ch(c) == Key("Char", c, FALSE)
Ctrl(c) == Key("Char", c, TRUE)
Special(code) == Key(code, None, FALSE)

IsChar(key, c) == key.code = "Char" /\ key.ch = c

Digits == <<"0", "1", "2", "3", "4", "5", "6", "7", "8", "9">>
IsDigit(c) == \E i \in 1..10 : Digits[i] = c
DigitValue(c) == (CHOOSE i \in 1..10 : Digits[i] = c) - 1

\* str::parse on a string of digits
RECURSIVE ParseDigits(_)
ParseDigits(s) ==
    IF Len(s) = 0 THEN 0
    ELSE 10 * ParseDigits(SubSeq(s, 1, Len(s) - 1)) + DigitValue(s[Len(s)])

\* char::is_uppercase / to_lowercase / to_uppercase on the letters typed
ToggleCase(c) ==
    CASE c = "a" -> "A"
      [] c = "A" -> "a"
      [] c = "b" -> "B"
      [] c = "B" -> "b"
      [] OTHER -> c

\* ------------------------------------------------------ registers by name
\* Registers::get: ", 0-9, -, a letter of either case; None for _ and the rest.
Registers_get(r, register) ==
    IF register = "\"" THEN r.unnamed
    ELSE IF IsDigit(register) THEN r.numbered[DigitValue(register) + 1]
    ELSE IF register = "-" THEN r.small_delete
    ELSE IF is_ascii_lowercase(register) \/ is_ascii_uppercase(register)
    THEN Registers_get_named(r, register)
    ELSE IF register = "_" THEN NoContent
    ELSE NoContent

\* A set whose black hole falls through to the default arm.
Registers_set_black_hole_stores(r, register, content, is_delete) ==
    IF register = "\"" THEN [r EXCEPT !.unnamed = content]
    ELSE IF is_ascii_lowercase(register) \/ is_ascii_uppercase(register)
    THEN Registers_set_named(r, register, content)
    ELSE IF is_delete THEN Registers_delete(r, content)
    ELSE Registers_yank(r, content)

\* Registers::set: " sets the unnamed register, a letter goes to set_named,
\* _ discards, any other name is a delete or a yank.
Registers_set(r, register, content, is_delete) ==
    IF register = "\"" THEN [r EXCEPT !.unnamed = content]
    ELSE IF is_ascii_lowercase(register) \/ is_ascii_uppercase(register)
    THEN Registers_set_named(r, register, content)
    ELSE IF register = "_" THEN r
    ELSE IF is_delete THEN Registers_delete(r, content)
    ELSE Registers_yank(r, content)

\* --------------------------------------------------------------- Selection
VisualModes == {"Char", "Line", "Block"}

\* Option<Selection>: None has no mode.
NoSelection ==
    [mode |-> None, anchor_line |-> 0, anchor_col |-> 0, cursor_line |-> 0, cursor_col |-> 0]

Selection_new(visual_mode, line, col) ==
    [mode |-> visual_mode, anchor_line |-> line, anchor_col |-> col,
     cursor_line |-> line, cursor_col |-> col]

\* An update_cursor that drags the anchor along.
Selection_update_cursor_all(s, line, col) ==
    [s EXCEPT !.cursor_line = line, !.cursor_col = col,
              !.anchor_line = line, !.anchor_col = col]

Selection_update_cursor(s, line, col) ==
    [s EXCEPT !.cursor_line = line, !.cursor_col = col]

\* A normalized that orders lines and columns each on their own.
Selection_normalized_boxed(s) ==
    <<IF s.anchor_line <= s.cursor_line THEN s.anchor_line ELSE s.cursor_line,
      IF s.anchor_col <= s.cursor_col THEN s.anchor_col ELSE s.cursor_col,
      IF s.anchor_line <= s.cursor_line THEN s.cursor_line ELSE s.anchor_line,
      IF s.anchor_col <= s.cursor_col THEN s.cursor_col ELSE s.anchor_col>>

\* Selection::normalized: <<start_line, start_col, end_line, end_col>>
Selection_normalized(s) ==
    LET lines == IF s.anchor_line <= s.cursor_line
                 THEN <<s.anchor_line, s.cursor_line>>
                 ELSE <<s.cursor_line, s.anchor_line>>
        cols == IF s.anchor_line = s.cursor_line
                THEN IF s.anchor_col <= s.cursor_col
                     THEN <<s.anchor_col, s.cursor_col>>
                     ELSE <<s.cursor_col, s.anchor_col>>
                ELSE IF s.anchor_line < s.cursor_line
                THEN <<s.anchor_col, s.cursor_col>>
                ELSE <<s.cursor_col, s.anchor_col>>
    IN  <<lines[1], cols[1], lines[2], cols[2]>>

Selection_line_range(s) ==
    <<Selection_normalized(s)[1], Selection_normalized(s)[3]>>

Selection_col_range(s) ==
    IF s.anchor_col <= s.cursor_col THEN <<s.anchor_col, s.cursor_col>>
    ELSE <<s.cursor_col, s.anchor_col>>

\* ------------------------------------------------------------------ Search
\* Columns of a Match are byte offsets into the line.
SearchDirections == {"Forward", "Backward"}

\* Option<usize> and Option<Match>
NoIndex == [some |-> FALSE, idx |-> 0]
SomeIndex(i) == [some |-> TRUE, idx |-> i]
NoMatch == [some |-> FALSE, line |-> 0, start_col |-> 0, end_col |-> 0]
SomeMatch(m) ==
    [some |-> TRUE, line |-> m.line, start_col |-> m.start_col, end_col |-> m.end_col]

\* Search::new
Search_new ==
    [pattern |-> <<>>, direction |-> "Forward", matches |-> <<>>,
     current_match |-> NoIndex, case_sensitive |-> FALSE]

\* str::to_lowercase over the letters of the alphabet
to_lowercase(s) == [i \in 1..Len(s) |-> to_ascii_lowercase(s[i])]

\* The matches of one line: every occurrence of the pattern, an occurrence
\* may overlap the one before (the scan resumes one byte after a match start).
line_matches(search_line, search_pattern, line_idx) ==
    LET starts == {i \in 1..(Len(search_line) - Len(search_pattern) + 1) :
                     SubSeq(search_line, i, i + Len(search_pattern) - 1) = search_pattern}
        byte_of(i) == len_bytes(SubSeq(search_line, 1, i - 1))
        nth[k \in 0..Cardinality(starts)] ==
            IF k = 0 THEN <<>>
            ELSE LET i == CHOOSE j \in starts : Cardinality({h \in starts : h < j}) = k - 1
                 IN  Append(nth[k - 1],
                            [line |-> line_idx, start_col |-> byte_of(i),
                             end_col |-> byte_of(i) + len_bytes(search_pattern)])
    IN  nth[Cardinality(starts)]

\* Search::find_all_matches
Search_find_all_matches(s, b) ==
    LET cleared == [s EXCEPT !.matches = <<>>, !.current_match = NoIndex]
        search_pattern == IF s.case_sensitive THEN s.pattern ELSE to_lowercase(s.pattern)
        search_line(line_idx) ==
            IF s.case_sensitive THEN Buffer_line(b, line_idx)
            ELSE to_lowercase(Buffer_line(b, line_idx))
        upto[n \in 0..Buffer_line_count(b)] ==
            IF n = 0 THEN <<>>
            ELSE upto[n - 1] \o line_matches(search_line(n - 1), search_pattern, n - 1)
    IN  IF s.pattern = <<>> THEN cleared
        ELSE [cleared EXCEPT !.matches = upto[Buffer_line_count(b)]]

\* Search::search
Search_search(s, pattern, direction, b) ==
    Search_find_all_matches([s EXCEPT !.pattern = pattern, !.direction = direction], b)

\* Iterator::position / rposition over the matches
position(matches, P(_)) ==
    LET hits == {i \in 1..Len(matches) : P(matches[i])}
    IN  IF hits = {} THEN NoIndex
        ELSE SomeIndex((CHOOSE i \in hits : \A j \in hits : i <= j) - 1)

rposition(matches, P(_)) ==
    LET hits == {i \in 1..Len(matches) : P(matches[i])}
    IN  IF hits = {} THEN NoIndex
        ELSE SomeIndex((CHOOSE i \in hits : \A j \in hits : i >= j) - 1)

\* Search::next_match: the search afterwards and the match returned.
Search_next_match(s, c, b) ==
    IF s.matches = <<>> THEN [search |-> s, ret |-> NoMatch]
    ELSE LET after(m) == m.line > c.line \/ (m.line = c.line /\ m.start_col > c.col)
             before(m) == m.line < c.line \/ (m.line = c.line /\ m.start_col < c.col)
             found == IF s.direction = "Forward" THEN position(s.matches, after)
                      ELSE rposition(s.matches, before)
             idx == IF found.some THEN found.idx
                    ELSE IF s.direction = "Forward" THEN 0
                    ELSE Len(s.matches) - 1
         IN  [search |-> [s EXCEPT !.current_match = SomeIndex(idx)],
              ret |-> SomeMatch(s.matches[idx + 1])]

\* Option::unwrap_or(0) of current_match
current_or_zero(s) == IF s.current_match.some THEN s.current_match.idx ELSE 0

\* A jump_next that steps without wrapping.
Search_jump_next_unwrapped(s, c) ==
    IF s.matches = <<>> THEN [search |-> s, ret |-> NoMatch]
    ELSE LET current == current_or_zero(s)
             next_idx == IF s.direction = "Forward" THEN current + 1
                         ELSE SatSub(current, 1)
         IN  [search |-> [s EXCEPT !.current_match = SomeIndex(next_idx)],
              ret |-> IF next_idx < Len(s.matches) THEN SomeMatch(s.matches[next_idx + 1])
                      ELSE NoMatch]

\* Search::jump_next
Search_jump_next(s, c) ==
    IF s.matches = <<>> THEN [search |-> s, ret |-> NoMatch]
    ELSE LET current == current_or_zero(s)
             next_idx == IF s.direction = "Forward"
                         THEN IF current + 1 >= Len(s.matches) THEN 0 ELSE current + 1
                         ELSE IF current = 0 THEN Len(s.matches) - 1 ELSE current - 1
         IN  [search |-> [s EXCEPT !.current_match = SomeIndex(next_idx)],
              ret |-> IF next_idx < Len(s.matches) THEN SomeMatch(s.matches[next_idx + 1])
                      ELSE NoMatch]

\* Search::jump_prev
Search_jump_prev(s, c) ==
    IF s.matches = <<>> THEN [search |-> s, ret |-> NoMatch]
    ELSE LET current == current_or_zero(s)
             prev_idx == IF s.direction = "Forward"
                         THEN IF current = 0 THEN Len(s.matches) - 1 ELSE current - 1
                         ELSE IF current + 1 >= Len(s.matches) THEN 0 ELSE current + 1
         IN  [search |-> [s EXCEPT !.current_match = SomeIndex(prev_idx)],
              ret |-> IF prev_idx < Len(s.matches) THEN SomeMatch(s.matches[prev_idx + 1])
                      ELSE NoMatch]

\* Search::clear
Search_clear(s) == [s EXCEPT !.pattern = <<>>, !.matches = <<>>, !.current_match = NoIndex]

\* ------------------------------------------------------------------ Editor
VARIABLES
    buffer,          \* Editor.buffer: rope, file_path, modified, history
    cursor,          \* Editor.cursor: line, col, sticky_col
    mode,            \* Editor.mode
    scroll_offset,   \* Editor.scroll_offset
    message,         \* Editor.message: Option<String>
    registers,       \* Editor.registers
    pending_op,      \* Editor.pending_op: Option<char>
    last_find,       \* Editor.last_find: Option<(char, bool)>
    numeric_prefix,  \* Editor.numeric_prefix
    pending_g,       \* Editor.pending_g
    buffer_manager,  \* Editor.buffer_manager
    selection,       \* Editor.selection: Option<Selection>
    search,          \* Editor.search
    command_buffer,  \* Editor.command_buffer
    fatal,           \* the process panicked inside handle_key
    scan,            \* the loop of a word motion or a bracket scan under way
    quit             \* handle_key returned true: the main loop has ended

vars == <<buffer, cursor, mode, scroll_offset, message, registers, pending_op,
          last_find, numeric_prefix, pending_g, buffer_manager, selection, search,
          command_buffer, fatal, scan, quit>>

NoFind == [ch |-> None, forward |-> FALSE]

\* No loop is under way.
NoScan == [op |-> None, at |-> Turn(FALSE, 0, 0)]
SomeFind(c, forward) == [ch |-> c, forward |-> forward]

\* Editor::new
Editor_new ==
    [buffer |-> Buffer_new,
     cursor |-> Cursor_new,
     mode |-> "Normal",
     scroll_offset |-> 0,
     message |-> None,
     registers |-> Registers_new,
     pending_op |-> None,
     last_find |-> NoFind,
     numeric_prefix |-> <<>>,
     pending_g |-> FALSE,
     buffer_manager |-> BufferManager_new,
     selection |-> NoSelection,
     search |-> Search_new,
     command_buffer |-> <<>>,
     fatal |-> FALSE]

\* The Editor the variables hold.
Editor ==
    [buffer |-> buffer, cursor |-> cursor, mode |-> mode, scroll_offset |-> scroll_offset,
     message |-> message, registers |-> registers, pending_op |-> pending_op,
     last_find |-> last_find, numeric_prefix |-> numeric_prefix, pending_g |-> pending_g,
     buffer_manager |-> buffer_manager, selection |-> selection, search |-> search,
     command_buffer |-> command_buffer, fatal |-> fatal]

\* A panic inside a handler: the process ends.
Panic(e) == [e EXCEPT !.fatal = TRUE]

\* Editor::ensure_cursor_visible
ensure_cursor_visible(e) ==
    IF e.cursor.line < e.scroll_offset + SCROLL_MARGIN
    THEN [e EXCEPT !.scroll_offset = SatSub(e.cursor.line, SCROLL_MARGIN)]
    ELSE IF e.cursor.line >= e.scroll_offset + VIEWPORT_HEIGHT - SCROLL_MARGIN
    THEN [e EXCEPT !.scroll_offset = SatSub(e.cursor.line, VIEWPORT_HEIGHT - SCROLL_MARGIN - 1)]
    ELSE e

\* The delimiter that balances the one given, and the direction of the scan.
bracket_target(ch) ==
    CASE ch = "(" -> [target |-> ")", forward |-> TRUE]
      [] ch = ")" -> [target |-> "(", forward |-> FALSE]
      [] ch = "[" -> [target |-> "]", forward |-> TRUE]
      [] ch = "]" -> [target |-> "[", forward |-> FALSE]
      [] ch = "{" -> [target |-> "}", forward |-> TRUE]
      [] ch = "}" -> [target |-> "{", forward |-> FALSE]
      [] ch = "<" -> [target |-> ">", forward |-> TRUE]
      [] ch = ">" -> [target |-> "<", forward |-> FALSE]
      [] OTHER -> [target |-> None, forward |-> FALSE]

RECURSIVE bracket_scan(_, _, _, _, _, _, _)
\* The loop body after the step with the delimiter's own pair not counted.
bracket_at_unnested(b, current_char, target, forward, depth, line, col) ==
    IF Buffer_char_at(b, line, col) = target THEN SomePos(line, col)
    ELSE bracket_scan(b, current_char, target, forward, depth, line, col)

\* The loop body after the step: the character at (line, col) opens a nested
\* pair, closes one, or ends the scan at depth 0.
bracket_at(b, current_char, target, forward, depth, line, col) ==
    IF Buffer_char_at(b, line, col) = current_char
    THEN bracket_scan(b, current_char, target, forward, depth + 1, line, col)
    ELSE IF Buffer_char_at(b, line, col) = target
    THEN IF depth - 1 = 0 THEN SomePos(line, col)
         ELSE bracket_scan(b, current_char, target, forward, depth - 1, line, col)
    ELSE bracket_scan(b, current_char, target, forward, depth, line, col)

\* One turn of the loop of Editor::find_matching_bracket: a step forward or
\* backward, over the ends of lines, to the edge of the buffer.
bracket_scan(b, current_char, target, forward, depth, line, col) ==
    IF forward
    THEN IF col + 1 >= Buffer_line_len(b, line)
         THEN IF line + 1 >= Buffer_line_count(b) THEN NoPos
              ELSE bracket_at(b, current_char, target, forward, depth, line + 1, 0)
         ELSE bracket_at(b, current_char, target, forward, depth, line, col + 1)
    ELSE IF col = 0
         THEN IF line = 0 THEN NoPos
              ELSE bracket_at(b, current_char, target, forward, depth, line - 1,
                              SatSub(Buffer_line_len(b, line - 1), 1))
         ELSE bracket_at(b, current_char, target, forward, depth, line, col - 1)

\* The character check of one turn of the loop of
\* Editor::find_matching_bracket, after the step to (line, col).
bracket_turn_at(b, current_char, target, depth, line, col) ==
    IF Buffer_char_at(b, line, col) = current_char
    THEN [Turn(FALSE, line, col) EXCEPT !.depth = depth + 1]
    ELSE IF Buffer_char_at(b, line, col) = target
    THEN [Turn(depth - 1 = 0, line, col) EXCEPT !.depth = depth - 1]
    ELSE [Turn(FALSE, line, col) EXCEPT !.depth = depth]

\* One turn of the loop of Editor::find_matching_bracket: it returns None at
\* the edge of the buffer.
bracket_turn(b, current_char, target, forward, depth, line, col) ==
    IF forward
    THEN IF col + 1 >= Buffer_line_len(b, line)
         THEN IF line + 1 >= Buffer_line_count(b)
              THEN [Turn(TRUE, line + 1, col + 1) EXCEPT !.found = FALSE, !.depth = depth]
              ELSE bracket_turn_at(b, current_char, target, depth, line + 1, 0)
         ELSE bracket_turn_at(b, current_char, target, depth, line, col + 1)
    ELSE IF col = 0
         THEN IF line = 0
              THEN [Turn(TRUE, line, col) EXCEPT !.found = FALSE, !.depth = depth]
              ELSE bracket_turn_at(b, current_char, target, depth, line - 1,
                                   SatSub(Buffer_line_len(b, line - 1), 1))
         ELSE bracket_turn_at(b, current_char, target, depth, line, col - 1)

bracket_from(e, current_char, pair) ==
    IF pair.target = None THEN NoPos
    ELSE bracket_scan(e.buffer, current_char, pair.target, pair.forward, 1,
                      e.cursor.line, e.cursor.col)

\* Editor::find_matching_bracket
find_matching_bracket(e) ==
    bracket_from(e, Buffer_char_at(e.buffer, e.cursor.line, e.cursor.col),
                 bracket_target(Buffer_char_at(e.buffer, e.cursor.line, e.cursor.col)))

normal_percent_to(e, found) ==
    IF found.some
    THEN ensure_cursor_visible([e EXCEPT !.cursor.line = found.line, !.cursor.col = found.col])
    ELSE e

\* %
normal_percent(e) == normal_percent_to(e, find_matching_bracket(e))

\* Editor::find_char_on_line indexes chars[i] for i < cursor.col unchecked
\* when it scans backward.
find_char_on_line_panics(e, target, forward) ==
    LET chars == Buffer_line(e.buffer, e.cursor.line)
    IN  ~forward /\ e.cursor.col > Len(chars)

\* Editor::find_char_on_line: the nearest occurrence after (forward) or
\* before (backward) the cursor on its line; the cursor stays when there is none.
find_char_on_line(e, target, forward) ==
    LET chars == Buffer_line(e.buffer, e.cursor.line)
        hits == IF forward
                THEN {i \in (e.cursor.col + 1)..(Len(chars) - 1) : chars[i + 1] = target}
                ELSE {i \in 0..(e.cursor.col - 1) : chars[i + 1] = target}
    IN  IF hits = {} THEN e
        ELSE IF forward
        THEN [e EXCEPT !.cursor.col = CHOOSE i \in hits : \A j \in hits : i <= j]
        ELSE [e EXCEPT !.cursor.col = CHOOSE i \in hits : \A j \in hits : i >= j]

\* Whether a string of digits with no leading zero is at most i32::MAX,
\* decided on the digits.
fits_i32(s) ==
    \/ Len(s) < 10
    \/ /\ Len(s) = 10
       /\ \/ ParseDigits(SubSeq(s, 1, 9)) < 214748364
          \/ ParseDigits(SubSeq(s, 1, 9)) = 214748364 /\ DigitValue(s[10]) <= 7

\* The count of a motion with every prefix taken at its value.
motion_count_unbounded(e) ==
    IF Len(e.numeric_prefix) = 0 THEN 1
    ELSE IF ~fits_i32(e.numeric_prefix) THEN 2147483647
    ELSE ParseDigits(e.numeric_prefix)

\* The count of a motion: 1 without a prefix, else the prefix parsed as i32
\* (1 when it does not fit).
motion_count(e) ==
    IF Len(e.numeric_prefix) = 0 THEN 1
    ELSE IF ~fits_i32(e.numeric_prefix) THEN 1
    ELSE ParseDigits(e.numeric_prefix)

MoveOnce(motion, c, b) ==
    CASE motion = "left" -> Cursor_move_left(c, b)
      [] motion = "right" -> Cursor_move_right(c, b)
      [] motion = "up" -> Cursor_move_up(c, b)
      [] motion = "down" -> Cursor_move_down(c, b)

\* for _ in 0..count { motion }: a motion that leaves the cursor where it is
\* does so for every turn left.
RECURSIVE MoveTimes(_, _, _, _)
MoveAgain(motion, c, next, b, count) ==
    IF next = c THEN c ELSE MoveTimes(motion, next, b, count - 1)

MoveTimes(motion, c, b, count) ==
    IF count <= 0 THEN c ELSE MoveAgain(motion, c, MoveOnce(motion, c, b), b, count)

\* h j k l and the arrow keys: the motion, count times; the prefix is cleared.
\* j and k also scroll.
normal_motion(e, motion) ==
    LET moved == [e EXCEPT !.cursor = MoveTimes(motion, e.cursor, e.buffer, motion_count(e))]
        shown == IF motion \in {"up", "down"} THEN ensure_cursor_visible(moved) ELSE moved
    IN  [shown EXCEPT !.numeric_prefix = <<>>]

WordOnce(motion, c, b) ==
    CASE motion = "w" -> Cursor_move_word_forward(c, b)
      [] motion = "b" -> Cursor_move_word_backward(c, b)
      [] motion = "e" -> Cursor_move_word_end(c, b)

\* for _ in 0..count { word motion }: the cursor afterwards, or the panic
\* of one of the motions.
RECURSIVE WordTimes(_, _, _, _)
WordAgain(motion, c, next, b, count) ==
    IF next = c THEN [c |-> c, panic |-> FALSE] ELSE WordTimes(motion, next, b, count - 1)

WordTimes(motion, c, b, count) ==
    IF count <= 0 THEN [c |-> c, panic |-> FALSE]
    ELSE IF motion = "b" /\ Cursor_move_word_backward_panics(c, b)
    THEN [c |-> c, panic |-> TRUE]
    ELSE WordAgain(motion, c, WordOnce(motion, c, b), b, count)

normal_word_moved(e, moved) ==
    IF moved.panic THEN Panic(e)
    ELSE [e EXCEPT !.cursor = moved.c, !.numeric_prefix = <<>>]

\* w b e: the word motion, count times; the prefix is cleared.
normal_word_motion(e, motion) ==
    normal_word_moved(e, WordTimes(motion, e.cursor, e.buffer, motion_count(e)))

\* The pending replace (r then a key).
normal_pending_replace(e, key) ==
    LET done ==
          IF key.code = "Char" /\ ~key.ctrl
          THEN LET b1 == Buffer_checkpoint(e.buffer, e.cursor.line, e.cursor.col)
                   pos == Cursor_byte_offset(e.cursor, b1)
               IN  IF e.cursor.col < Buffer_line_len(b1, e.cursor.line)
                   THEN [e EXCEPT !.buffer = Buffer_insert(Buffer_delete(b1, pos, pos + 1),
                                                           pos, <<key.ch>>)]
                   ELSE [e EXCEPT !.buffer = b1]
          ELSE e
    IN  [done EXCEPT !.pending_op = None]

\* The pending find (f or F then a key).
normal_pending_find(e, key) ==
    IF key.code = "Char"
    THEN LET forward == e.pending_op = "f"
             noted == [e EXCEPT !.last_find = SomeFind(key.ch, forward)]
         IN  IF find_char_on_line_panics(noted, key.ch, forward) THEN Panic(noted)
             ELSE [find_char_on_line(noted, key.ch, forward) EXCEPT !.pending_op = None]
    ELSE [e EXCEPT !.pending_op = None]

\* g: gg moves to the buffer start; a first g waits for the next key.
normal_g(e) ==
    IF e.pending_g
    THEN [e EXCEPT !.cursor = Cursor_move_to_buffer_start(e.cursor), !.pending_g = FALSE]
    ELSE [e EXCEPT !.pending_g = TRUE]

\* gt / gT: the next or previous buffer of the manager becomes the buffer.
normal_gt(e, forward) ==
    LET m == IF forward THEN BufferManager_next_buffer(e.buffer_manager)
             ELSE BufferManager_prev_buffer(e.buffer_manager)
    IN  IF BufferManager_current_buffer_panics(m) THEN Panic([e EXCEPT !.buffer_manager = m])
        ELSE [e EXCEPT !.buffer_manager = m,
                       !.buffer = BufferManager_current_buffer(m),
                       !.cursor = Cursor_new,
                       !.scroll_offset = 0,
                       !.message = IF forward THEN "Switched to next buffer"
                                   ELSE "Switched to previous buffer",
                       !.pending_g = FALSE]

\* ; and , repeat the last find, in its direction or the opposite one.
normal_repeat_find(e, same) ==
    IF e.last_find.ch = None THEN e
    ELSE LET forward == IF same THEN e.last_find.forward ELSE ~e.last_find.forward
         IN  IF find_char_on_line_panics(e, e.last_find.ch, forward) THEN Panic(e)
             ELSE find_char_on_line(e, e.last_find.ch, forward)

normal_o(e) ==
    LET b1 == Buffer_checkpoint(e.buffer, e.cursor.line, e.cursor.col)
        c1 == Cursor_move_to_line_end(e.cursor, b1)
        pos == Cursor_byte_offset(c1, b1)
    IN  IF Buffer_insert_panics(b1, pos) THEN Panic(e)
        ELSE LET b2 == Buffer_insert(b1, pos, <<NL>>)
                 c2 == Cursor_move_to_line_start(Cursor_move_down(c1, b2))
             IN  [e EXCEPT !.buffer = b2, !.cursor = c2, !.mode = "Insert"]

normal_O(e) ==
    LET b1 == Buffer_checkpoint(e.buffer, e.cursor.line, e.cursor.col)
        c1 == Cursor_move_to_line_start(e.cursor)
        pos == Cursor_byte_offset(c1, b1)
    IN  IF Buffer_insert_panics(b1, pos) THEN Panic(e)
        ELSE [e EXCEPT !.buffer = Buffer_insert(b1, pos, <<NL>>), !.cursor = c1,
                       !.mode = "Insert"]

normal_x(e) ==
    LET b1 == Buffer_checkpoint(e.buffer, e.cursor.line, e.cursor.col)
        ch == Buffer_char_at(b1, e.cursor.line, e.cursor.col)
        regs == IF ch # None THEN Registers_delete(e.registers, Chars(<<ch>>)) ELSE e.registers
        b2 == Buffer_delete_grapheme(b1, e.cursor.line, e.cursor.col)
    IN  [e EXCEPT !.buffer = b2, !.registers = regs, !.cursor = Cursor_clamp(e.cursor, b2)]

\* The current line as line-wise register content: newline-terminated.
line_content(e) ==
    LET line == Buffer_line(e.buffer, e.cursor.line)
    IN  IF Len(line) > 0 /\ line[Len(line)] = NL THEN line ELSE Append(line, NL)

normal_y(e) ==
    IF e.pending_op = "y"
    THEN [e EXCEPT !.registers = Registers_yank(e.registers, Lines(line_content(e))),
                   !.message = "1 line yanked",
                   !.pending_op = None]
    ELSE [e EXCEPT !.pending_op = "y"]

normal_d(e) ==
    IF e.pending_op = "d"
    THEN LET b1 == Buffer_checkpoint(e.buffer, e.cursor.line, e.cursor.col)
             regs == Registers_delete(e.registers, Lines(line_content(e)))
             b2 == Buffer_delete_line(b1, e.cursor.line)
             shown == ensure_cursor_visible([e EXCEPT !.buffer = b2, !.registers = regs,
                                                      !.cursor = Cursor_clamp(e.cursor, b2)])
         IN  [shown EXCEPT !.message = "1 line deleted", !.pending_op = None]
    ELSE [e EXCEPT !.pending_op = "d"]

\* The byte range from the given start to the end of the cursor's line,
\* its newline kept (cc, D, C).
line_end_byte(b, line) ==
    IF line + 1 < Buffer_line_count(b) THEN Buffer_line_to_byte(b, line + 1) - 1
    ELSE Buffer_len(b)

normal_c(e) ==
    IF e.pending_op = "c"
    THEN LET b1 == Buffer_checkpoint(e.buffer, e.cursor.line, e.cursor.col)
             content == trim_end_nl(Buffer_line(b1, e.cursor.line))
             regs == IF Len(content) > 0 THEN Registers_delete(e.registers, Chars(content))
                     ELSE e.registers
             line_start == Buffer_line_to_byte(b1, e.cursor.line)
             line_end == line_end_byte(b1, e.cursor.line)
             b2 == IF line_start < line_end THEN Buffer_delete(b1, line_start, line_end) ELSE b1
         IN  [e EXCEPT !.buffer = b2, !.registers = regs, !.cursor.col = 0,
                       !.mode = "Insert", !.pending_op = None]
    ELSE [e EXCEPT !.pending_op = "c"]

normal_J(e) ==
    IF e.cursor.line + 1 < Buffer_line_count(e.buffer)
    THEN LET b1 == Buffer_checkpoint(e.buffer, e.cursor.line, e.cursor.col)
             current_line_len == Buffer_line_len(b1, e.cursor.line)
         IN  [e EXCEPT !.buffer = Buffer_join_lines(b1, e.cursor.line),
                       !.cursor.col = current_line_len]
    ELSE e

\* D and C up to the cursor clamp (D) or the mode switch (C): the rest of
\* the line goes to the registers and is removed.
delete_to_line_end(e) ==
    LET b1 == Buffer_checkpoint(e.buffer, e.cursor.line, e.cursor.col)
        chars == Buffer_line(b1, e.cursor.line)
    IN  IF e.cursor.col < Len(chars)
        THEN LET deleted == trim_end_nl(Slice(chars, e.cursor.col, Len(chars)))
                 regs == IF Len(deleted) > 0 THEN Registers_delete(e.registers, Chars(deleted))
                         ELSE e.registers
                 start == Buffer_line_to_byte(b1, e.cursor.line)
                          + Buffer_col_to_byte(b1, e.cursor.line, e.cursor.col)
                 end == line_end_byte(b1, e.cursor.line)
             IN  [e EXCEPT !.buffer = IF start < end THEN Buffer_delete(b1, start, end) ELSE b1,
                           !.registers = regs]
        ELSE [e EXCEPT !.buffer = b1]

normal_D(e) ==
    LET d == delete_to_line_end(e)
    IN  [d EXCEPT !.cursor = Cursor_clamp(d.cursor, d.buffer)]

normal_C(e) == [delete_to_line_end(e) EXCEPT !.mode = "Insert"]

normal_tilde(e) ==
    IF e.cursor.col < Buffer_line_len(e.buffer, e.cursor.line)
    THEN LET b1 == Buffer_checkpoint(e.buffer, e.cursor.line, e.cursor.col)
             c == Buffer_char_at(b1, e.cursor.line, e.cursor.col)
         IN  IF c # None
             THEN LET pos == Cursor_byte_offset(e.cursor, b1)
                      b2 == Buffer_insert(Buffer_delete(b1, pos, pos + 1), pos, <<ToggleCase(c)>>)
                  IN  [e EXCEPT !.buffer = b2, !.cursor = Cursor_move_right(e.cursor, b2)]
             ELSE [e EXCEPT !.buffer = b1]
    ELSE e

normal_indent(e) ==
    IF e.pending_op = ">"
    THEN LET b1 == Buffer_checkpoint(e.buffer, e.cursor.line, e.cursor.col)
         IN  [e EXCEPT !.buffer = Buffer_indent_line(b1, e.cursor.line, TAB_WIDTH),
                       !.pending_op = None]
    ELSE [e EXCEPT !.pending_op = ">"]

normal_outdent(e) ==
    IF e.pending_op = "<"
    THEN LET b1 == Buffer_checkpoint(e.buffer, e.cursor.line, e.cursor.col)
             b2 == Buffer_outdent_line(b1, e.cursor.line, TAB_WIDTH)
         IN  [e EXCEPT !.buffer = b2, !.cursor = Cursor_clamp(e.cursor, b2),
                       !.pending_op = None]
    ELSE [e EXCEPT !.pending_op = "<"]

normal_p(e) ==
    LET content == Registers_get_unnamed(e.registers)
    IN  IF content.kind = None THEN e
        ELSE LET b1 == Buffer_checkpoint(e.buffer, e.cursor.line, e.cursor.col)
             IN  IF content.kind = "Lines"
                 THEN ensure_cursor_visible(
                        [e EXCEPT !.buffer = Buffer_insert_line_below(b1, e.cursor.line, content.text),
                                  !.cursor.line = e.cursor.line + 1,
                                  !.cursor.col = 0])
                 ELSE LET pos == Cursor_byte_offset(e.cursor, b1)
                      IN  IF Buffer_insert_panics(b1, pos + 1) THEN Panic([e EXCEPT !.buffer = b1])
                          ELSE ensure_cursor_visible(
                                 [e EXCEPT !.buffer = Buffer_insert(b1, pos + 1, content.text),
                                           !.cursor.col = e.cursor.col + 1])

normal_P(e) ==
    LET content == Registers_get_unnamed(e.registers)
    IN  IF content.kind = None THEN e
        ELSE LET b1 == Buffer_checkpoint(e.buffer, e.cursor.line, e.cursor.col)
             IN  IF content.kind = "Lines"
                 THEN IF Buffer_insert_line_above_panics(b1, e.cursor.line)
                      THEN Panic([e EXCEPT !.buffer = b1])
                      ELSE ensure_cursor_visible(
                             [e EXCEPT !.buffer = Buffer_insert_line_above(b1, e.cursor.line,
                                                                           content.text),
                                       !.cursor.col = 0])
                 ELSE LET pos == Cursor_byte_offset(e.cursor, b1)
                      IN  ensure_cursor_visible([e EXCEPT !.buffer = Buffer_insert(b1, pos, content.text)])

\* u (with any modifier: the arm tests the key code alone)
normal_u(e) ==
    LET u == Buffer_undo(e.buffer, e.cursor.line, e.cursor.col)
    IN  IF u.ret.some
        THEN LET restored == [e EXCEPT !.buffer = u.b,
                                       !.cursor.line = u.ret.line,
                                       !.cursor.col = u.ret.col]
                 clamped == [restored EXCEPT !.cursor = Cursor_clamp(restored.cursor, u.b)]
             IN  [ensure_cursor_visible(clamped) EXCEPT !.message = "Undo"]
        ELSE [e EXCEPT !.buffer = u.b, !.message = "Already at oldest change"]

\* Ctrl-r
normal_redo(e) ==
    LET r == Buffer_redo(e.buffer)
    IN  IF r.ret.some
        THEN LET restored == [e EXCEPT !.buffer = r.b,
                                       !.cursor.line = r.ret.line,
                                       !.cursor.col = r.ret.col]
                 clamped == [restored EXCEPT !.cursor = Cursor_clamp(restored.cursor, r.b)]
             IN  [ensure_cursor_visible(clamped) EXCEPT !.message = "Redo"]
        ELSE [e EXCEPT !.buffer = r.b, !.message = "Already at newest change"]

\* Editor::handle_normal_mode: the pending replace and find first, then the
\* arms of the match in their order (an earlier arm shadows a later one).
handle_normal_mode(e, key) ==
    IF e.pending_op = "r" THEN normal_pending_replace(e, key)
    ELSE IF e.pending_op \in {"f", "F"} THEN normal_pending_find(e, key)
    ELSE IF key.code = "Char" /\ IsDigit(key.ch) /\ key.ch # "0"
    THEN [e EXCEPT !.numeric_prefix = Append(e.numeric_prefix, key.ch)]
    ELSE IF IsChar(key, "0") /\ Len(e.numeric_prefix) > 0
    THEN [e EXCEPT !.numeric_prefix = Append(e.numeric_prefix, "0")]
    ELSE IF IsChar(key, "h") \/ key.code = "Left" THEN normal_motion(e, "left")
    ELSE IF IsChar(key, "j") \/ key.code = "Down" THEN normal_motion(e, "down")
    ELSE IF IsChar(key, "k") \/ key.code = "Up" THEN normal_motion(e, "up")
    ELSE IF IsChar(key, "l") \/ key.code = "Right" THEN normal_motion(e, "right")
    ELSE IF IsChar(key, "0") THEN [e EXCEPT !.cursor = Cursor_move_to_line_start(e.cursor)]
    ELSE IF IsChar(key, "$") THEN [e EXCEPT !.cursor = Cursor_move_to_line_end(e.cursor, e.buffer)]
    ELSE IF IsChar(key, "g") THEN normal_g(e)
    ELSE IF IsChar(key, "G") THEN [e EXCEPT !.cursor = Cursor_move_to_buffer_end(e.cursor, e.buffer)]
    ELSE IF IsChar(key, "t") /\ e.pending_g THEN normal_gt(e, TRUE)
    ELSE IF IsChar(key, "T") /\ e.pending_g THEN normal_gt(e, FALSE)
    ELSE IF IsChar(key, "%") THEN normal_percent(e)
    ELSE IF IsChar(key, "w") \/ IsChar(key, "b") \/ IsChar(key, "e")
    THEN normal_word_motion(e, key.ch)
    ELSE IF IsChar(key, "f") THEN [e EXCEPT !.pending_op = "f"]
    ELSE IF IsChar(key, "F") THEN [e EXCEPT !.pending_op = "F"]
    ELSE IF IsChar(key, ";") THEN normal_repeat_find(e, TRUE)
    ELSE IF IsChar(key, ",") THEN normal_repeat_find(e, FALSE)
    ELSE IF IsChar(key, "i") THEN [e EXCEPT !.mode = "Insert"]
    ELSE IF IsChar(key, "a")
    THEN [e EXCEPT !.cursor = Cursor_move_right(e.cursor, e.buffer), !.mode = "Insert"]
    ELSE IF IsChar(key, "I")
    THEN [e EXCEPT !.cursor = Cursor_move_to_line_start(e.cursor), !.mode = "Insert"]
    ELSE IF IsChar(key, "A")
    THEN [e EXCEPT !.cursor = Cursor_move_to_line_end(e.cursor, e.buffer), !.mode = "Insert"]
    ELSE IF IsChar(key, "o") THEN normal_o(e)
    ELSE IF IsChar(key, "O") THEN normal_O(e)
    ELSE IF IsChar(key, "x") THEN normal_x(e)
    ELSE IF IsChar(key, "y") THEN normal_y(e)
    ELSE IF IsChar(key, "d") THEN normal_d(e)
    ELSE IF IsChar(key, "c") THEN normal_c(e)
    ELSE IF IsChar(key, "J") THEN normal_J(e)
    ELSE IF IsChar(key, "D") THEN normal_D(e)
    ELSE IF IsChar(key, "C") THEN normal_C(e)
    ELSE IF IsChar(key, "r") /\ ~key.ctrl THEN [e EXCEPT !.pending_op = "r"]
    ELSE IF IsChar(key, "~") THEN normal_tilde(e)
    ELSE IF IsChar(key, ">") THEN normal_indent(e)
    ELSE IF IsChar(key, "<") THEN normal_outdent(e)
    ELSE IF IsChar(key, "p") THEN normal_p(e)
    ELSE IF IsChar(key, "P") THEN normal_P(e)
    ELSE IF IsChar(key, "u") THEN normal_u(e)
    ELSE IF IsChar(key, "r") /\ key.ctrl THEN normal_redo(e)
    ELSE IF IsChar(key, ":") THEN [e EXCEPT !.mode = "Command", !.command_buffer = <<>>]
    ELSE IF IsChar(key, "v") /\ ~key.ctrl
    THEN [e EXCEPT !.selection = Selection_new("Char", e.cursor.line, e.cursor.col),
                   !.mode = "Visual"]
    ELSE IF IsChar(key, "V")
    THEN [e EXCEPT !.selection = Selection_new("Line", e.cursor.line, e.cursor.col),
                   !.mode = "VisualLine"]
    ELSE IF IsChar(key, "v") /\ key.ctrl
    THEN [e EXCEPT !.selection = Selection_new("Block", e.cursor.line, e.cursor.col),
                   !.mode = "VisualBlock"]
    ELSE [e EXCEPT !.numeric_prefix = <<>>]

\* Editor::handle_insert_mode
handle_insert_mode(e, key) ==
    CASE key.code = "Esc" ->
           [e EXCEPT !.mode = "Normal",
                     !.cursor = IF e.cursor.col > 0 THEN Cursor_move_left(e.cursor, e.buffer)
                                ELSE e.cursor]
      [] key.code = "Char" ->
           LET b1 == Buffer_checkpoint(e.buffer, e.cursor.line, e.cursor.col)
               pos == Cursor_byte_offset(e.cursor, b1)
           IN  IF Buffer_insert_panics(b1, pos) THEN Panic([e EXCEPT !.buffer = b1])
               ELSE [e EXCEPT !.buffer = Buffer_insert_char(b1, pos, key.ch),
                              !.cursor.col = e.cursor.col + 1]
      [] key.code = "Enter" ->
           LET b1 == Buffer_checkpoint(e.buffer, e.cursor.line, e.cursor.col)
               pos == Cursor_byte_offset(e.cursor, b1)
           IN  IF Buffer_insert_panics(b1, pos) THEN Panic([e EXCEPT !.buffer = b1])
               ELSE ensure_cursor_visible([e EXCEPT !.buffer = Buffer_insert_char(b1, pos, NL),
                                                    !.cursor.line = e.cursor.line + 1,
                                                    !.cursor.col = 0])
      [] key.code = "Backspace" ->
           LET b1 == Buffer_checkpoint(e.buffer, e.cursor.line, e.cursor.col)
           IN  IF Buffer_backspace_panics(b1, e.cursor.line, e.cursor.col)
               THEN Panic([e EXCEPT !.buffer = b1])
               ELSE LET r == Buffer_backspace(b1, e.cursor.line, e.cursor.col)
                    IN  ensure_cursor_visible([e EXCEPT !.buffer = r.b,
                                                        !.cursor.line = r.line,
                                                        !.cursor.col = r.col])
      [] key.code = "Delete" ->
           LET b1 == Buffer_checkpoint(e.buffer, e.cursor.line, e.cursor.col)
           IN  [e EXCEPT !.buffer = Buffer_delete_grapheme(b1, e.cursor.line, e.cursor.col)]
      [] key.code = "Left" -> [e EXCEPT !.cursor = Cursor_move_left(e.cursor, e.buffer)]
      [] key.code = "Right" -> [e EXCEPT !.cursor = Cursor_move_right(e.cursor, e.buffer)]
      [] key.code = "Up" ->
           ensure_cursor_visible([e EXCEPT !.cursor = Cursor_move_up(e.cursor, e.buffer)])
      [] key.code = "Down" ->
           ensure_cursor_visible([e EXCEPT !.cursor = Cursor_move_down(e.cursor, e.buffer)])
      [] OTHER -> e

\* chars.get(start..end).unwrap_or(&[]): nothing when the range is not
\* within the line.
chars_get(chars, start, end) ==
    IF start <= end /\ end <= Len(chars) THEN Slice(chars, start, end) ELSE <<>>

\* str::lines().count()
lines_count(text) ==
    Cardinality({i \in 1..Len(text) : text[i] = NL})
        + (IF Len(text) > 0 /\ text[Len(text)] # NL THEN 1 ELSE 0)

\* format!("{} line(s) yanked", line_count)
yanked_message(line_count) ==
    CASE line_count = 1 -> "1 line(s) yanked"
      [] line_count = 2 -> "2 line(s) yanked"
      [] line_count = 3 -> "3 line(s) yanked"
      [] OTHER -> "4 or more line(s) yanked"

\* The text Editor::yank_selection collects for the selection sel.
RECURSIVE selection_content(_, _, _)
selection_content(b, sel, line_idx) ==
    LET n == Selection_normalized(sel)
        cols == Selection_col_range(sel)
        chars == Buffer_line(b, line_idx)
        part == CASE sel.mode = "Char" ->
                       chars_get(chars,
                                 IF line_idx = n[1] THEN n[2] ELSE 0,
                                 IF line_idx = n[3] THEN Min(n[4] + 1, Len(chars))
                                 ELSE Len(chars))
                  [] sel.mode = "Line" -> chars
                  [] sel.mode = "Block" ->
                       chars_get(chars, cols[1], Min(cols[2] + 1, Len(chars)))
        break == IF sel.mode = "Line" \/ line_idx < n[3] THEN <<NL>> ELSE <<>>
    IN  IF line_idx > n[3] THEN <<>>
        ELSE part \o break \o selection_content(b, sel, line_idx + 1)

\* A yank_selection that fills the small-delete register.
yank_selection_small(e) ==
    IF e.selection.mode = None THEN e
    ELSE LET content == selection_content(e.buffer, e.selection,
                                          Selection_normalized(e.selection)[1])
         IN  [e EXCEPT !.registers.small_delete = Chars(content),
                       !.message = yanked_message(Max(lines_count(content), 1))]

\* Editor::yank_selection
yank_selection(e) ==
    IF e.selection.mode = None THEN e
    ELSE LET content == selection_content(e.buffer, e.selection,
                                          Selection_normalized(e.selection)[1])
             register_content == IF e.selection.mode = "Line" THEN Lines(content)
                                 ELSE Chars(content)
         IN  [e EXCEPT !.registers = Registers_yank(e.registers, register_content),
                       !.message = yanked_message(Max(lines_count(content), 1))]

\* The byte ranges Editor::delete_selection hands to Buffer::delete in Block
\* mode, from the last line up to the first: the buffer afterwards, or the
\* panic of one of the deletes.
RECURSIVE delete_block(_, _, _, _)
delete_block(b, sel, line_idx, first) ==
    LET cols == Selection_col_range(sel)
        start_byte == Buffer_line_to_byte(b, line_idx) + Buffer_col_to_byte(b, line_idx, cols[1])
        end_byte == Buffer_line_to_byte(b, line_idx)
                        + Buffer_col_to_byte(b, line_idx, cols[2] + 1)
    IN  IF Buffer_delete_panics(b, start_byte, end_byte) THEN [b |-> b, panic |-> TRUE]
        ELSE IF line_idx = first
        THEN [b |-> Buffer_delete(b, start_byte, end_byte), panic |-> FALSE]
        ELSE delete_block(Buffer_delete(b, start_byte, end_byte), sel, line_idx - 1, first)

\* Editor::delete_selection
delete_selection(e) ==
    IF e.selection.mode = None THEN e
    ELSE LET sel == e.selection
             n == Selection_normalized(sel)
             line_range == Selection_line_range(sel)
             col_range == Selection_col_range(sel)
             b1 == Buffer_checkpoint(e.buffer, e.cursor.line, e.cursor.col)
             yanked == yank_selection([e EXCEPT !.buffer = b1])
             start_byte ==
                 IF sel.mode = "Char"
                 THEN Buffer_line_to_byte(b1, n[1]) + Buffer_col_to_byte(b1, n[1], n[2])
                 ELSE Buffer_line_to_byte(b1, line_range[1])
             end_byte ==
                 IF sel.mode = "Char"
                 THEN Buffer_line_to_byte(b1, n[3]) + Buffer_col_to_byte(b1, n[3], n[4] + 1)
                 ELSE IF line_range[2] + 1 < Buffer_line_count(b1)
                 THEN Buffer_line_to_byte(b1, line_range[2] + 1)
                 ELSE Buffer_line_to_byte(b1, line_range[2])
                          + len_bytes(Buffer_line(b1, line_range[2]))
             block == delete_block(b1, sel, line_range[2], line_range[1])
             panics == IF sel.mode = "Block" THEN block.panic
                       ELSE Buffer_delete_panics(b1, start_byte, end_byte)
             deleted == IF sel.mode = "Block" THEN block.b
                        ELSE Buffer_delete(b1, start_byte, end_byte)
             at == CASE sel.mode = "Char" -> <<n[1], n[2]>>
                     [] sel.mode = "Line" -> <<line_range[1], 0>>
                     [] sel.mode = "Block" -> <<line_range[1], col_range[1]>>
             moved == [e.cursor EXCEPT !.line = at[1], !.col = at[2]]
         IN  IF panics THEN Panic(yanked)
             ELSE [yanked EXCEPT !.buffer = deleted,
                                 !.cursor = Cursor_clamp(moved, deleted),
                                 !.message = "Deleted"]

\* Editor::update_selection
update_selection(e) ==
    IF e.selection.mode = None THEN e
    ELSE [e EXCEPT !.selection = Selection_update_cursor(e.selection, e.cursor.line,
                                                         e.cursor.col)]

\* A visual motion: the cursor moves, the selection follows.
visual_motion(e, c, scroll) ==
    LET updated == update_selection([e EXCEPT !.cursor = c])
    IN  IF scroll THEN ensure_cursor_visible(updated) ELSE updated

\* A switch between the visual modes that leaves the selection's mode behind.
visual_switch_mode_only(e, own_mode, visual_mode) ==
    IF e.mode = own_mode THEN [e EXCEPT !.mode = "Normal", !.selection = NoSelection]
    ELSE [e EXCEPT !.mode = own_mode]

\* v or V in a visual mode: the same key ends the selection, the other one
\* switches the selection and the mode.
visual_switch(e, own_mode, visual_mode) ==
    IF e.mode = own_mode THEN [e EXCEPT !.mode = "Normal", !.selection = NoSelection]
    ELSE [e EXCEPT !.mode = own_mode,
                   !.selection = IF e.selection.mode = None THEN e.selection
                                 ELSE [e.selection EXCEPT !.mode = visual_mode]]

\* After the yank or the delete: Normal mode, no selection (a panic inside
\* ends the process before).
visual_end(e) ==
    IF e.fatal THEN e ELSE [e EXCEPT !.mode = "Normal", !.selection = NoSelection]

\* Editor::handle_visual_mode
handle_visual_mode(e, key) ==
    CASE key.code = "Esc" -> [e EXCEPT !.mode = "Normal", !.selection = NoSelection]
      [] IsChar(key, "h") \/ key.code = "Left" ->
           visual_motion(e, Cursor_move_left(e.cursor, e.buffer), FALSE)
      [] IsChar(key, "j") \/ key.code = "Down" ->
           visual_motion(e, Cursor_move_down(e.cursor, e.buffer), TRUE)
      [] IsChar(key, "k") \/ key.code = "Up" ->
           visual_motion(e, Cursor_move_up(e.cursor, e.buffer), TRUE)
      [] IsChar(key, "l") \/ key.code = "Right" ->
           visual_motion(e, Cursor_move_right(e.cursor, e.buffer), FALSE)
      [] IsChar(key, "0") -> visual_motion(e, Cursor_move_to_line_start(e.cursor), FALSE)
      [] IsChar(key, "^") ->
           visual_motion(e, Cursor_move_to_first_non_whitespace(e.cursor, e.buffer), FALSE)
      [] IsChar(key, "$") ->
           visual_motion(e, Cursor_move_to_line_end(e.cursor, e.buffer), FALSE)
      [] IsChar(key, "g") -> visual_motion(e, Cursor_move_to_buffer_start(e.cursor), TRUE)
      [] IsChar(key, "G") ->
           visual_motion(e, Cursor_move_to_buffer_end(e.cursor, e.buffer), TRUE)
      [] IsChar(key, "w") ->
           visual_motion(e, Cursor_move_word_forward(e.cursor, e.buffer), FALSE)
      [] IsChar(key, "b") ->
           IF Cursor_move_word_backward_panics(e.cursor, e.buffer) THEN Panic(e)
           ELSE visual_motion(e, Cursor_move_word_backward(e.cursor, e.buffer), FALSE)
      [] IsChar(key, "e") ->
           visual_motion(e, Cursor_move_word_end(e.cursor, e.buffer), FALSE)
      [] IsChar(key, "y") -> visual_end(yank_selection(e))
      [] IsChar(key, "d") \/ IsChar(key, "x") -> visual_end(delete_selection(e))
      [] IsChar(key, "v") /\ ~key.ctrl -> visual_switch(e, "Visual", "Char")
      [] IsChar(key, "V") -> visual_switch(e, "VisualLine", "Line")
      [] OTHER -> e

\* The command lines that open the help screen.
HelpCommands == {<<"h", "e", "l", "p">>, <<"h">>, <<"?">>}

\* Editor::execute_command, for command lines that name no file, buffer or
\* setting: the help command opens the help screen, a line that is no command
\* is reported (the message carries the line).
execute_command(e) ==
    LET cmd == trim(e.command_buffer)
    IN  IF cmd \in HelpCommands
        THEN [e EXCEPT !.mode = "Help", !.message = "Press q/Esc/Enter to close help"]
        ELSE [e EXCEPT !.message = "Unknown command"]

\* The command lines of Editor::execute_command that quit or save.
QuitCommands == {<<"q">>, <<"q", "u", "i", "t">>}
ForceQuitCommands == {<<"q", "!">>, <<"q", "u", "i", "t", "!">>}
WriteCommands == {<<"w">>, <<"w", "r", "i", "t", "e">>}
WriteQuitCommands == {<<"w", "q">>, <<"x">>, <<"w", "q", "!">>}

\* PathBuf::from of the path typed after `w `: the one-character paths are
\* the characters themselves.
PathBuf_from(path) ==
    CASE Len(path) = 1 -> path[1]
      [] OTHER -> "a longer path"

\* A wq that quits however the save went.
execute_command_on_quits_always(e, write_ok) ==
    [e |-> [e EXCEPT !.buffer = Buffer_save(e.buffer, write_ok).b],
     quit |-> trim(e.command_buffer) \in WriteQuitCommands \cup ForceQuitCommands]

\* Editor::execute_command with the outcome of fs::write (write_ok), for the
\* command lines that quit or save: the Editor afterwards and the bool
\* returned. The other command lines return false.
execute_command_on(e, write_ok) ==
    LET cmd == trim(e.command_buffer)
        saved == Buffer_save(e.buffer, write_ok)
        path == trim(SubSeq(cmd, 3, Len(cmd)))
        saved_as == Buffer_save_as(e.buffer, PathBuf_from(path), write_ok)
    IN  IF cmd \in QuitCommands
        THEN IF e.buffer.modified
             THEN [e |-> [e EXCEPT !.message = "Unsaved changes! Use :q! to force quit"],
                   quit |-> FALSE]
             ELSE [e |-> e, quit |-> TRUE]
        ELSE IF cmd \in ForceQuitCommands THEN [e |-> e, quit |-> TRUE]
        ELSE IF cmd \in WriteCommands
        THEN [e |-> [e EXCEPT !.buffer = saved.b,
                              !.message = IF saved.ok THEN "Written" ELSE "Error saving"],
              quit |-> FALSE]
        ELSE IF cmd \in WriteQuitCommands
        THEN IF saved.ok THEN [e |-> [e EXCEPT !.buffer = saved.b], quit |-> TRUE]
             ELSE [e |-> [e EXCEPT !.buffer = saved.b, !.message = "Error saving"],
                   quit |-> FALSE]
        ELSE IF Len(cmd) >= 2 /\ SubSeq(cmd, 1, 2) = <<"w", SPACE>>
        THEN [e |-> [e EXCEPT !.buffer = saved_as.b,
                              !.message = IF saved_as.ok THEN "Written: path"
                                          ELSE "Error saving"],
              quit |-> FALSE]
        ELSE [e |-> execute_command(e), quit |-> FALSE]

\* The Enter arm of Editor::handle_command_mode after handle_key has cleared
\* the message: the Editor afterwards and the bool handle_key returns.
command_enter(e, write_ok) ==
    LET executed == execute_command_on([e EXCEPT !.message = None], write_ok)
    IN  [e |-> [executed.e EXCEPT !.mode = IF executed.e.mode = "Command" THEN "Normal"
                                            ELSE executed.e.mode,
                                  !.command_buffer = <<>>],
         quit |-> executed.quit]

\* Editor::handle_command_mode
handle_command_mode(e, key) ==
    CASE key.code = "Esc" -> [e EXCEPT !.mode = "Normal", !.command_buffer = <<>>]
      [] key.code = "Enter" ->
           LET executed == execute_command(e)
           IN  [executed EXCEPT !.mode = IF executed.mode = "Command" THEN "Normal"
                                         ELSE executed.mode,
                                !.command_buffer = <<>>]
      [] key.code = "Backspace" ->
           IF e.command_buffer = <<>> THEN [e EXCEPT !.mode = "Normal"]
           ELSE [e EXCEPT !.command_buffer = SubSeq(e.command_buffer, 1,
                                                    Len(e.command_buffer) - 1)]
      [] key.code = "Char" -> [e EXCEPT !.command_buffer = Append(e.command_buffer, key.ch)]
      [] OTHER -> e

\* Editor::handle_help_mode
handle_help_mode(e, key) ==
    IF key.code = "Esc" \/ IsChar(key, "q") \/ key.code = "Enter"
    THEN [e EXCEPT !.mode = "Normal"]
    ELSE e

\* Editor::handle_key: the message is cleared, then the mode's handler runs.
handle_key(e, key) ==
    LET cleared == [e EXCEPT !.message = None]
    IN  CASE e.mode = "Normal" -> handle_normal_mode(cleared, key)
          [] e.mode = "Insert" -> handle_insert_mode(cleared, key)
          [] e.mode = "Command" -> handle_command_mode(cleared, key)
          [] e.mode \in {"Visual", "VisualLine", "VisualBlock"} ->
               handle_visual_mode(cleared, key)
          [] e.mode = "Help" -> handle_help_mode(cleared, key)

\* ------------------------------------------------------------ key events fed
\* Undo and redo: the keys of the specification Spec.
UndoTextKeys == {Ch("a"), Special("Enter"), Special("Backspace"), Special("Esc")}
UndoChars == {"i", "o", "x", "u"}
UndoKeys == {Ch(c) : c \in UndoChars} \cup {Ctrl("r"), Special("Esc")}

\* Delete and paste: the keys of the specification SpecPaste.
PasteTextKeys == {Ch("a"), Special("Enter"), Special("Esc")}
PasteChars == {"i", "x", "d", "p", "P", "k", "u"}
PasteKeys == {Ch(c) : c \in PasteChars}

\* The whole modelled keyboard: the keys of the specification SpecKeys.
AllTextKeys ==
    {Ch("a"), Special("Enter"), Special("Backspace"), Special("Esc"), Special("Delete"),
     Special("Left"), Special("Right"), Special("Up"), Special("Down")}
CommandChars ==
    {"2", "0", "h", "j", "k", "l", "$", "g", "G", "t", "T", "f", "F", ";", ",",
     "i", "a", "I", "A", "o", "O", "x", "y", "d", "c", "J", "D", "C", "r", "~",
     ">", "<", "p", "P", "u"}
CommandKeys == {Ch(c) : c \in CommandChars} \cup {Ctrl("r"), Special("Esc")}

\* How many of the numbered registers 1..9 hold something.
NumberedFilled(r) == Cardinality({i \in 2..10 : r.numbered[i].kind # None})

\* The states an exploration keeps.
WithinBounds(e, maxLen, maxUndo) ==
    /\ Len(e.buffer.rope) <= maxLen
    /\ Len(e.buffer.history.undo_stack) <= maxUndo
    /\ NumberedFilled(e.registers) <= MaxNumbered
    /\ Len(e.numeric_prefix) <= MaxPrefix

\* The variables take the fields of the Editor e.
BecomesEditor(e) ==
    /\ buffer' = e.buffer
    /\ cursor' = e.cursor
    /\ mode' = e.mode
    /\ scroll_offset' = e.scroll_offset
    /\ message' = e.message
    /\ registers' = e.registers
    /\ pending_op' = e.pending_op
    /\ last_find' = e.last_find
    /\ numeric_prefix' = e.numeric_prefix
    /\ pending_g' = e.pending_g
    /\ buffer_manager' = e.buffer_manager
    /\ selection' = e.selection
    /\ search' = e.search
    /\ command_buffer' = e.command_buffer
    /\ fatal' = e.fatal
    /\ scan' = scan

\* The variables take the fields of the Editor e, the main loop goes on.
Becomes(e) == BecomesEditor(e) /\ quit' = quit

Init ==
    /\ buffer = Editor_new.buffer
    /\ cursor = Editor_new.cursor
    /\ mode = Editor_new.mode
    /\ scroll_offset = Editor_new.scroll_offset
    /\ message = Editor_new.message
    /\ registers = Editor_new.registers
    /\ pending_op = Editor_new.pending_op
    /\ last_find = Editor_new.last_find
    /\ numeric_prefix = Editor_new.numeric_prefix
    /\ pending_g = Editor_new.pending_g
    /\ buffer_manager = Editor_new.buffer_manager
    /\ selection = Editor_new.selection
    /\ search = Editor_new.search
    /\ command_buffer = Editor_new.command_buffer
    /\ fatal = Editor_new.fatal
    /\ scan = NoScan
    /\ quit = FALSE

\* The key event `key` reaches the Editor, the outcome within the bounds.
TypeKey(key, maxLen, maxUndo) ==
    \E e \in {handle_key(Editor, key)} : WithinBounds(e, maxLen, maxUndo) /\ Becomes(e)

\* A key event in Normal mode.
HandleNormalMode ==
    /\ ~fatal
    /\ mode = "Normal"
    /\ \E key \in UndoKeys : TypeKey(key, MaxLen, MaxUndo)

\* A key event in Insert mode.
HandleInsertMode ==
    /\ ~fatal
    /\ mode = "Insert"
    /\ \E key \in UndoTextKeys : TypeKey(key, MaxLen, MaxUndo)

Next == HandleNormalMode \/ HandleInsertMode

\* Typing, deleting, undo and redo over texts of up to MaxLen characters.
Spec == Init /\ [][Next]_vars

PasteNormalMode ==
    /\ ~fatal
    /\ mode = "Normal"
    /\ \E key \in PasteKeys : TypeKey(key, MaxLenPaste, MaxUndoPaste)

PasteInsertMode ==
    /\ ~fatal
    /\ mode = "Insert"
    /\ \E key \in PasteTextKeys : TypeKey(key, MaxLenPaste, MaxUndoPaste)

NextPaste == PasteNormalMode \/ PasteInsertMode

\* Typing, x, dd, p and P over texts of up to MaxLenPaste characters.
SpecPaste == Init /\ [][NextPaste]_vars

\* A key event in Normal mode with no text expected.
KeysNormalMode ==
    /\ ~fatal
    /\ mode = "Normal"
    /\ pending_op \notin {"r", "f", "F"}
    /\ \E key \in CommandKeys : TypeKey(key, MaxLenKeys, MaxUndoKeys)

\* The key event after r, f or F.
KeysPendingChar ==
    /\ ~fatal
    /\ mode = "Normal"
    /\ pending_op \in {"r", "f", "F"}
    /\ \E key \in {Ch("a"), Special("Esc")} : TypeKey(key, MaxLenKeys, MaxUndoKeys)

\* A key event in Insert mode.
KeysInsertMode ==
    /\ ~fatal
    /\ mode = "Insert"
    /\ \E key \in AllTextKeys : TypeKey(key, MaxLenKeys, MaxUndoKeys)

NextKeys == KeysNormalMode \/ KeysPendingChar \/ KeysInsertMode

\* The whole keyboard over texts of up to MaxLenKeys characters.
SpecKeys == Init /\ [][NextKeys]_vars

\* ------------------------------------------------- Buffer calls, long history
\* The base snapshot Buffer::new hands to History::init.
BaseSnapshot == Snapshot(<<>>, 0, 0)

\* The buffers the exploration keeps after a call on the buffer `was`: short
\* texts, short redo stacks, and an undo stack that is short, or nearly full,
\* or in between and not shrinking.
InWindow(was, b) ==
    /\ Len(b.rope) <= HistLen
    /\ Len(b.history.redo_stack) <= HistWindow
    /\ \/ Len(b.history.undo_stack) <= HistWindow + 1
       \/ Len(b.history.undo_stack) >= MAX_HISTORY_SIZE - HistWindow
       \/ Len(b.history.undo_stack) >= Len(was.history.undo_stack)

\* The exploration stops where the base snapshot is gone.
BaseKept == ~fatal /\ buffer.history.undo_stack[1] = BaseSnapshot

EditorUnchanged ==
    UNCHANGED <<cursor, mode, scroll_offset, message, registers, pending_op, last_find,
                numeric_prefix, pending_g, buffer_manager, selection, search,
                command_buffer, fatal, scan, quit>>

CallCheckpoint ==
    /\ BaseKept
    /\ InWindow(buffer, Buffer_checkpoint(buffer, cursor.line, cursor.col))
    /\ buffer' = Buffer_checkpoint(buffer, cursor.line, cursor.col)
    /\ EditorUnchanged

CallInsert ==
    /\ BaseKept
    /\ InWindow(buffer, Buffer_insert(buffer, 0, <<"a">>))
    /\ buffer' = Buffer_insert(buffer, 0, <<"a">>)
    /\ EditorUnchanged

CallDelete ==
    /\ BaseKept
    /\ InWindow(buffer, Buffer_delete(buffer, 0, 1))
    /\ buffer' = Buffer_delete(buffer, 0, 1)
    /\ EditorUnchanged

CallUndo ==
    /\ BaseKept
    /\ InWindow(buffer, Buffer_undo(buffer, cursor.line, cursor.col).b)
    /\ buffer' = Buffer_undo(buffer, cursor.line, cursor.col).b
    /\ EditorUnchanged

CallRedo ==
    /\ BaseKept
    /\ InWindow(buffer, Buffer_redo(buffer).b)
    /\ buffer' = Buffer_redo(buffer).b
    /\ EditorUnchanged

NextHist == CallCheckpoint \/ CallInsert \/ CallDelete \/ CallUndo \/ CallRedo

\* Buffer::checkpoint, insert, delete, undo and redo called in any order on
\* the buffer of a fresh Editor.
SpecHist == Init /\ [][NextHist]_vars

\* ------------------------------------------------------------------ counts
CountDigitKeys == {Ch("3"), Ch("0")}
CountMotionKeys == {Ch(c) : c \in {"h", "j", "k", "l", "w", "b", "e"}}

TypeCountKey(key) ==
    \E e \in {handle_key(Editor, key)} :
        /\ Len(e.buffer.rope) <= MaxLenCount
        /\ Len(e.buffer.history.undo_stack) <= MaxUndoCount
        /\ Len(e.numeric_prefix) <= MaxDigits
        /\ Becomes(e)

\* The text is typed with no count pending.
CountInsert ==
    /\ ~fatal
    /\ mode = "Normal"
    /\ numeric_prefix = <<>>
    /\ TypeCountKey(Ch("i"))

CountInsertMode ==
    /\ ~fatal
    /\ mode = "Insert"
    /\ \E key \in {Ch("a"), Special("Enter"), Special("Esc")} : TypeCountKey(key)

CountDigit ==
    /\ ~fatal
    /\ mode = "Normal"
    /\ \E key \in CountDigitKeys : TypeCountKey(key)

CountMotion ==
    /\ ~fatal
    /\ mode = "Normal"
    /\ \E key \in CountMotionKeys : TypeCountKey(key)

NextCount == CountInsert \/ CountInsertMode \/ CountDigit \/ CountMotion

\* Counts of up to MaxDigits digits before the motions h j k l w b e, over
\* texts of up to MaxLenCount characters.
SpecCount == Init /\ [][NextCount]_vars

\* ------------------------------------------------ history at its capacity
\* The contents History::record is handed: no text, and one character.
HistContents == {<<>>, <<"a">>}

\* The buffers the exploration keeps after a call on the buffer `was`: short
\* redo stacks, and an undo stack that is short, or nearly full, or in between
\* and not shrinking.
CapInWindow(was, b) ==
    /\ b.rope \in HistContents
    /\ Len(b.history.redo_stack) <= CapWindow
    /\ \/ Len(b.history.undo_stack) <= CapWindow + 1
       \/ Len(b.history.undo_stack) >= MAX_HISTORY_SIZE - CapWindow
       \/ Len(b.history.undo_stack) >= Len(was.history.undo_stack)

CapCheckpoint ==
    /\ BaseKept
    /\ CapInWindow(buffer, Buffer_checkpoint(buffer, cursor.line, cursor.col))
    /\ buffer' = Buffer_checkpoint(buffer, cursor.line, cursor.col)
    /\ EditorUnchanged

CapInsert ==
    /\ BaseKept
    /\ CapInWindow(buffer, Buffer_insert(buffer, 0, <<"a">>))
    /\ buffer' = Buffer_insert(buffer, 0, <<"a">>)
    /\ EditorUnchanged

CapDelete ==
    /\ BaseKept
    /\ CapInWindow(buffer, Buffer_delete(buffer, 0, 1))
    /\ buffer' = Buffer_delete(buffer, 0, 1)
    /\ EditorUnchanged

CapUndo ==
    /\ CapInWindow(buffer, Buffer_undo(buffer, cursor.line, cursor.col).b)
    /\ buffer' = Buffer_undo(buffer, cursor.line, cursor.col).b
    /\ EditorUnchanged

CapRedo ==
    /\ CapInWindow(buffer, Buffer_redo(buffer).b)
    /\ buffer' = Buffer_redo(buffer).b
    /\ EditorUnchanged

NextCap == CapCheckpoint \/ CapInsert \/ CapDelete \/ CapUndo \/ CapRedo

\* Buffer::checkpoint, undo and redo around a one-character text typed and
\* erased, up to the capacity of the undo stack; once the base snapshot has
\* been evicted, undo and redo alone go on.
SpecCap == Init /\ [][NextCap]_vars

\* ------------------------------------------------------------ Register calls
\* The contents the calls store: a character and a line.
RegContents == {Chars(<<"a">>), Lines(<<"a", NL>>)}

\* The register names the calls use: unnamed, a numbered one, the black
\* hole, and a letter.
RegNames == {"\"", "1", "_", "A"}

OnlyRegisters ==
    UNCHANGED <<buffer, cursor, mode, scroll_offset, message, pending_op, last_find,
                numeric_prefix, pending_g, buffer_manager, selection, search,
                command_buffer, fatal, scan, quit>>

\* The named registers stay short.
NamedWithin(r) == \A l \in NamedLetters : Len(r.named[l].text) <= MaxRegText

RegYank ==
    /\ \E c \in RegContents : registers' = Registers_yank(registers, c)
    /\ OnlyRegisters

RegDelete ==
    /\ \E c \in RegContents : registers' = Registers_delete(registers, c)
    /\ OnlyRegisters

RegSetNamed ==
    /\ \E name \in {"a", "A"} : \E c \in RegContents :
          /\ NamedWithin(Registers_set_named(registers, name, c))
          /\ registers' = Registers_set_named(registers, name, c)
    /\ OnlyRegisters

RegSet ==
    /\ \E register \in RegNames : \E c \in RegContents : \E is_delete \in BOOLEAN :
          /\ NamedWithin(Registers_set(registers, register, c, is_delete))
          /\ registers' = Registers_set(registers, register, c, is_delete)
    /\ OnlyRegisters

NextReg == RegYank \/ RegDelete \/ RegSetNamed \/ RegSet

\* Registers::yank, delete, set_named and set called in any order on the
\* registers of a fresh Editor.
SpecReg == Init /\ [][NextReg]_vars

\* ----------------------------------------------------------- Selection calls
OnlySelection ==
    UNCHANGED <<buffer, cursor, mode, scroll_offset, message, registers, pending_op,
                last_find, numeric_prefix, pending_g, buffer_manager, search,
                command_buffer, fatal, scan, quit>>

\* Selection::new at any position, in any visual mode.
SelNew ==
    /\ \E visual_mode \in VisualModes : \E line \in 0..MaxSel : \E col \in 0..MaxSel :
          selection' = Selection_new(visual_mode, line, col)
    /\ OnlySelection

\* Selection::update_cursor to any position.
SelUpdateCursor ==
    /\ selection.mode # None
    /\ \E line \in 0..MaxSel : \E col \in 0..MaxSel :
          selection' = Selection_update_cursor(selection, line, col)
    /\ OnlySelection

NextSel == SelNew \/ SelUpdateCursor

\* Selections with anchor and cursor anywhere within MaxSel lines and columns.
SpecSel == Init /\ [][NextSel]_vars

\* ---------------------------------------------------------- Buffer editing
\* The texts Buffer::insert is handed: a character of two bytes, a line break.
BufTexts == {<<EACUTE>>, <<NL>>}

\* Byte positions, lines and columns the calls are handed: beyond the range
\* wherever the rope is shorter than the longest.
BufPositions == 0..MaxLenBuf

OnlyBuffer ==
    UNCHANGED <<cursor, mode, scroll_offset, message, registers, pending_op, last_find,
                numeric_prefix, pending_g, buffer_manager, selection, search,
                command_buffer, scan, quit>>

BufInsert ==
    /\ ~fatal
    /\ \E byte_pos \in BufPositions : \E text \in BufTexts :
          IF Buffer_insert_panics(buffer, byte_pos)
          THEN fatal' = TRUE /\ buffer' = buffer
          ELSE /\ Len(Buffer_insert(buffer, byte_pos, text).rope) <= MaxLenBuf
               /\ buffer' = Buffer_insert(buffer, byte_pos, text)
               /\ fatal' = fatal
    /\ OnlyBuffer

BufDelete ==
    /\ ~fatal
    /\ \E start \in BufPositions : \E end \in BufPositions :
          IF Buffer_delete_panics(buffer, start, end)
          THEN fatal' = TRUE /\ buffer' = buffer
          ELSE buffer' = Buffer_delete(buffer, start, end) /\ fatal' = fatal
    /\ OnlyBuffer

BufDeleteLine ==
    /\ ~fatal
    /\ \E line \in BufPositions : buffer' = Buffer_delete_line(buffer, line)
    /\ fatal' = fatal
    /\ OnlyBuffer

BufBackspace ==
    /\ ~fatal
    /\ \E line \in BufPositions : \E col \in BufPositions :
          IF Buffer_backspace_panics(buffer, line, col)
          THEN fatal' = TRUE /\ buffer' = buffer
          ELSE buffer' = Buffer_backspace(buffer, line, col).b /\ fatal' = fatal
    /\ OnlyBuffer

BufDeleteGrapheme ==
    /\ ~fatal
    /\ \E line \in BufPositions : \E col \in BufPositions :
          IF Buffer_delete_grapheme_panics(buffer, line, col)
          THEN fatal' = TRUE /\ buffer' = buffer
          ELSE buffer' = Buffer_delete_grapheme(buffer, line, col) /\ fatal' = fatal
    /\ OnlyBuffer

BufJoinLines ==
    /\ ~fatal
    /\ \E line \in BufPositions :
          IF Buffer_join_lines_panics(buffer, line)
          THEN fatal' = TRUE /\ buffer' = buffer
          ELSE buffer' = Buffer_join_lines(buffer, line) /\ fatal' = fatal
    /\ OnlyBuffer

BufCheckpoint ==
    /\ ~fatal
    /\ Len(Buffer_checkpoint(buffer, cursor.line, cursor.col).history.undo_stack) <= MaxUndoBuf
    /\ buffer' = Buffer_checkpoint(buffer, cursor.line, cursor.col)
    /\ fatal' = fatal
    /\ OnlyBuffer

BufUndo ==
    /\ ~fatal
    /\ buffer' = Buffer_undo(buffer, cursor.line, cursor.col).b
    /\ fatal' = fatal
    /\ OnlyBuffer

BufRedo ==
    /\ ~fatal
    /\ buffer' = Buffer_redo(buffer).b
    /\ fatal' = fatal
    /\ OnlyBuffer

NextBuf ==
    \/ BufInsert \/ BufDelete \/ BufDeleteLine \/ BufBackspace \/ BufDeleteGrapheme
    \/ BufJoinLines \/ BufCheckpoint \/ BufUndo \/ BufRedo

\* Every editing call of Buffer, with arguments in range and beyond, on texts
\* of up to MaxLenBuf characters.
SpecBuf == Init /\ [][NextBuf]_vars

\* ----------------------------------------------------------- joining lines
JoinInsertChar ==
    /\ ~fatal
    /\ Len(buffer.rope) < MaxLenJoin
    /\ \E ch \in {"a", SPACE, NL} :
          buffer' = Buffer_insert_char(buffer, Len(buffer.rope), ch)
    /\ fatal' = fatal
    /\ OnlyBuffer

JoinJoinLines ==
    /\ ~fatal
    /\ \E line \in 0..MaxLenJoin :
          IF Buffer_join_lines_panics(buffer, line)
          THEN fatal' = TRUE /\ buffer' = buffer
          ELSE buffer' = Buffer_join_lines(buffer, line) /\ fatal' = fatal
    /\ OnlyBuffer

NextJoin == JoinInsertChar \/ JoinJoinLines

\* Buffer::join_lines on any line of any text of letters, spaces and line
\* breaks of up to MaxLenJoin characters.
SpecJoin == Init /\ [][NextJoin]_vars

\* ------------------------------------------------------------------ saving
SavePaths == {"p", "q"}

SaveInsert ==
    /\ Len(buffer.rope) < MaxLenSave
    /\ \E ch \in {"a", NL} : buffer' = Buffer_insert_char(buffer, Len(buffer.rope), ch)
    /\ fatal' = fatal
    /\ OnlyBuffer

SaveDelete ==
    /\ buffer' = Buffer_delete(buffer, 0, 1)
    /\ fatal' = fatal
    /\ OnlyBuffer

SaveCheckpoint ==
    /\ Len(Buffer_checkpoint(buffer, cursor.line, cursor.col).history.undo_stack) <= MaxUndoSave
    /\ buffer' = Buffer_checkpoint(buffer, cursor.line, cursor.col)
    /\ fatal' = fatal
    /\ OnlyBuffer

SaveUndo ==
    /\ buffer' = Buffer_undo(buffer, cursor.line, cursor.col).b
    /\ fatal' = fatal
    /\ OnlyBuffer

SaveRedo ==
    /\ buffer' = Buffer_redo(buffer).b
    /\ fatal' = fatal
    /\ OnlyBuffer

\* Buffer::save, the write succeeding or failing.
SaveSave ==
    /\ \E write_ok \in BOOLEAN : buffer' = Buffer_save(buffer, write_ok).b
    /\ fatal' = fatal
    /\ OnlyBuffer

\* Buffer::save_as to any path, the write succeeding or failing.
SaveSaveAs ==
    /\ \E path \in SavePaths : \E write_ok \in BOOLEAN :
          buffer' = Buffer_save_as(buffer, path, write_ok).b
    /\ fatal' = fatal
    /\ OnlyBuffer

NextSave ==
    \/ SaveInsert \/ SaveDelete \/ SaveCheckpoint \/ SaveUndo \/ SaveRedo
    \/ SaveSave \/ SaveSaveAs

\* Edits, undo and redo between saves that succeed and saves that fail.
SpecSave == Init /\ [][NextSave]_vars

\* ------------------------------------------------------------ Cursor clamping
OnlyCursor ==
    UNCHANGED <<mode, scroll_offset, message, registers, pending_op, last_find,
                numeric_prefix, pending_g, buffer_manager, selection, search,
                command_buffer, fatal, scan, quit>>

\* Buffer::insert_char of a letter or a line break at a position of the rope.
CurInsertChar ==
    /\ Len(buffer.rope) < MaxLenCur
    /\ \E byte_pos \in 0..Len(buffer.rope) : \E ch \in {"a", NL} :
          buffer' = Buffer_insert_char(buffer, byte_pos, ch)
    /\ cursor' = cursor
    /\ OnlyCursor

\* The public fields Cursor.line and Cursor.col take any value.
CurSet ==
    /\ \E line \in 0..MaxLenCur + 1 : \E col \in 0..MaxLenCur + 1 :
          cursor' = [cursor EXCEPT !.line = line, !.col = col]
    /\ buffer' = buffer
    /\ OnlyCursor

CurClamp ==
    /\ cursor' = Cursor_clamp(cursor, buffer)
    /\ buffer' = buffer
    /\ OnlyCursor

NextCur == CurInsertChar \/ CurSet \/ CurClamp

\* Any cursor value over any text of up to MaxLenCur characters.
SpecCur == Init /\ [][NextCur]_vars

\* --------------------------------------------------------- vertical motion
MoveInsertChar ==
    /\ Len(buffer.rope) < MaxLenMove
    /\ \E ch \in {"a", NL} : buffer' = Buffer_insert_char(buffer, Len(buffer.rope), ch)
    /\ cursor' = Cursor_new
    /\ OnlyCursor

\* The cursor is put on a character of the text, as a horizontal motion
\* leaves it: the sticky column is the column.
MovePlace ==
    /\ \E line \in 0..Buffer_line_count(buffer) - 1 :
          \E col \in 0..Buffer_line_len(buffer, line) :
              cursor' = [line |-> line, col |-> col, sticky_col |-> col]
    /\ buffer' = buffer
    /\ OnlyCursor

MoveUp ==
    /\ cursor' = Cursor_move_up(cursor, buffer)
    /\ buffer' = buffer
    /\ OnlyCursor

MoveDown ==
    /\ cursor' = Cursor_move_down(cursor, buffer)
    /\ buffer' = buffer
    /\ OnlyCursor

NextMove == MoveInsertChar \/ MovePlace \/ MoveUp \/ MoveDown

\* Vertical motions from any position over any text of up to MaxLenMove
\* characters.
SpecMove == Init /\ [][NextMove]_vars

\* ---------------------------------------------------------------- brackets
BracketChars == {"(", ")", "[", NL}

BrInsertChar ==
    /\ Len(buffer.rope) < MaxLenBracket
    /\ \E ch \in BracketChars : buffer' = Buffer_insert_char(buffer, Len(buffer.rope), ch)
    /\ cursor' = Cursor_new
    /\ OnlyCursor

\* The cursor is put on a character of the text or at the end of a line.
BrPlace ==
    /\ \E line \in 0..Buffer_line_count(buffer) - 1 :
          \E col \in 0..Buffer_line_len(buffer, line) :
              cursor' = [line |-> line, col |-> col, sticky_col |-> col]
    /\ buffer' = buffer
    /\ OnlyCursor

BrPercent ==
    /\ mode = "Normal"
    /\ \E e \in {handle_key(Editor, Ch("%"))} : Becomes(e)

NextBracket == BrInsertChar \/ BrPlace \/ BrPercent

\* % from any position over any text of delimiters and line breaks of up to
\* MaxLenBracket characters.
SpecBracket == Init /\ [][NextBracket]_vars

\* ------------------------------------------------------------------- scans
\* The loops of the word motions and of the bracket scan, a turn at a time.
ScanChars == {"a", SPACE, NL, "(", ")"}
ScanOps == {"w", "b", "e", "%"}

current_char == Buffer_char_at(buffer, cursor.line, cursor.col)

\* The state a loop is entered in: line and col of the cursor (move_word_end
\* a step further), depth 1; a scan from no delimiter has returned None.
ScanStart(op) ==
    IF op = "e" THEN word_end_start(buffer, cursor.line, cursor.col)
    ELSE IF op = "%"
    THEN IF bracket_target(current_char).target = None
         THEN [Turn(TRUE, cursor.line, cursor.col) EXCEPT !.found = FALSE]
         ELSE [Turn(FALSE, cursor.line, cursor.col) EXCEPT !.depth = 1]
    ELSE Turn(FALSE, cursor.line, cursor.col)

ScanNext(op, at) ==
    CASE op = "w" -> word_forward_turn(buffer, at.line, at.col)
      [] op = "b" -> word_backward_turn(buffer, at.line, at.col)
      [] op = "e" -> word_end_turn(buffer, at.line, at.col)
      [] op = "%" -> bracket_turn(buffer, current_char, bracket_target(current_char).target,
                                  bracket_target(current_char).forward,
                                  at.depth, at.line, at.col)

ScInsertChar ==
    /\ scan.op = None
    /\ Len(buffer.rope) < MaxLenScan
    /\ \E ch \in ScanChars : buffer' = Buffer_insert_char(buffer, Len(buffer.rope), ch)
    /\ cursor' = Cursor_new
    /\ OnlyCursor

\* The cursor is put on a character of the text or at the end of a line.
ScPlace ==
    /\ scan.op = None
    /\ \E line \in 0..Buffer_line_count(buffer) - 1 :
          \E col \in 0..Buffer_line_len(buffer, line) :
              cursor' = [line |-> line, col |-> col, sticky_col |-> col]
    /\ buffer' = buffer
    /\ OnlyCursor

\* A word motion or the bracket scan is called and enters its loop.
ScanBegin ==
    /\ scan.op = None
    /\ \E op \in ScanOps : scan' = [op |-> op, at |-> ScanStart(op)]
    /\ UNCHANGED <<buffer, cursor, mode, scroll_offset, message, registers, pending_op,
                   last_find, numeric_prefix, pending_g, buffer_manager, selection,
                   search, command_buffer, fatal, quit>>

\* The loop takes one turn.
ScanTurn ==
    /\ scan.op # None
    /\ ~scan.at.done
    /\ scan' = [scan EXCEPT !.at = ScanNext(scan.op, scan.at)]
    /\ UNCHANGED <<buffer, cursor, mode, scroll_offset, message, registers, pending_op,
                   last_find, numeric_prefix, pending_g, buffer_manager, selection,
                   search, command_buffer, fatal, quit>>

\* The call returns: a word motion has set the cursor, the bracket scan
\* hands its position to its caller.
ScanEnd ==
    /\ scan.op # None
    /\ scan.at.done
    /\ scan' = NoScan
    /\ cursor' = IF scan.op = "%" THEN cursor
                 ELSE [line |-> scan.at.line, col |-> scan.at.col, sticky_col |-> scan.at.col]
    /\ buffer' = buffer
    /\ UNCHANGED <<mode, scroll_offset, message, registers, pending_op, last_find,
                   numeric_prefix, pending_g, buffer_manager, selection, search,
                   command_buffer, fatal, quit>>

NextScan == ScInsertChar \/ ScPlace \/ ScanBegin \/ ScanTurn \/ ScanEnd

\* The loops from any position over any text of letters, blanks, line breaks
\* and delimiters of up to MaxLenScan characters; a loop under way goes on.
SpecScan == Init /\ [][NextScan]_vars /\ WF_vars(ScanTurn)

\* ------------------------------------------------------- the command line
CommandLineKeys ==
    {Ch("h"), Ch("?"), Ch("p"), Ch("z"), Ch(SPACE), Special("Enter"), Special("Esc"),
     Special("Backspace"), Special("Left")}

\* The outcome of a key on the command line, within the bounds.
TypeCommandKey(key) ==
    \E e \in {handle_key(Editor, key)} :
        Len(e.command_buffer) <= MaxCommandLen /\ Becomes(e)

\* : opens the command line, any other key falls through.
CmdNormalMode ==
    /\ mode = "Normal"
    /\ \E key \in {Ch(":"), Ch("z")} : TypeCommandKey(key)

CmdCommandMode ==
    /\ mode = "Command"
    /\ \E key \in CommandLineKeys : TypeCommandKey(key)

CmdHelpMode ==
    /\ mode = "Help"
    /\ \E key \in {Ch("q"), Ch("z"), Special("Enter"), Special("Esc")} : TypeCommandKey(key)

NextCommand == CmdNormalMode \/ CmdCommandMode \/ CmdHelpMode

\* Command lines of up to MaxCommandLen characters, typed and executed.
SpecCommand == Init /\ [][NextCommand]_vars

\* ------------------------------------------------------------ visual modes
VisualEntryKeys == {Ch("i"), Ch("v"), Ch("V"), Ctrl("v")}
VisualTextKeys == {Ch("a"), Ch(EACUTE), Special("Enter"), Special("Esc")}
VisualMotionKeys ==
    {Ch("h"), Ch("j"), Ch("k"), Ch("l"), Ch("0"), Ch("$"), Ch("g"), Ch("G"),
     Ch("w"), Ch("b"), Ch("e")}
VisualEndKeys == {Special("Esc"), Ch("y"), Ch("d"), Ch("x")}
VisualKeys == VisualMotionKeys \cup VisualEndKeys \cup {Ch("v"), Ch("V")}

IsVisual(m) == m \in {"Visual", "VisualLine", "VisualBlock"}

VisNormalMode ==
    /\ ~fatal
    /\ mode = "Normal"
    /\ \E key \in VisualEntryKeys : TypeKey(key, MaxLenVisual, MaxUndoVisual)

VisInsertMode ==
    /\ ~fatal
    /\ mode = "Insert"
    /\ \E key \in VisualTextKeys : TypeKey(key, MaxLenVisual, MaxUndoVisual)

VisVisualMode ==
    /\ ~fatal
    /\ IsVisual(mode)
    /\ \E key \in VisualKeys : TypeKey(key, MaxLenVisual, MaxUndoVisual)

NextVisual == VisNormalMode \/ VisInsertMode \/ VisVisualMode

\* Text typed, then selected, yanked and deleted in the three visual modes.
SpecVisual == Init /\ [][NextVisual]_vars

\* ------------------------------------------------------- saving and quitting
\* The command lines typed.
QuitCommandLines ==
    {<<"q">>, <<"q", "!">>, <<"w">>, <<"w", "q">>, <<"w", "q", "!">>, <<"x">>,
     <<"w", SPACE, "p">>, <<"z">>}

IsPrefix(s, t) == Len(s) <= Len(t) /\ SubSeq(t, 1, Len(s)) = s

QuitNormalMode ==
    /\ ~quit
    /\ mode = "Normal"
    /\ \E key \in {Ch("i"), Ch("x"), Ch(":")} : TypeKey(key, MaxLenQuit, MaxUndoQuit)

QuitInsertMode ==
    /\ ~quit
    /\ mode = "Insert"
    /\ \E key \in {Ch("a"), Special("Esc")} : TypeKey(key, MaxLenQuit, MaxUndoQuit)

\* A character of one of the command lines, Backspace or Esc.
QuitCommandMode ==
    /\ ~quit
    /\ mode = "Command"
    /\ \E key \in {Ch("q"), Ch("w"), Ch("x"), Ch("z"), Ch("!"), Ch(SPACE), Ch("p"),
                    Special("Backspace"), Special("Esc")} :
          \E e \in {handle_key(Editor, key)} :
              /\ \E line \in QuitCommandLines : IsPrefix(e.command_buffer, line)
              /\ Becomes(e)

\* Enter on the command line, fs::write succeeding or failing: handle_key
\* returns whether the main loop ends.
QuitEnter ==
    /\ ~quit
    /\ mode = "Command"
    /\ \E write_ok \in BOOLEAN :
          \E r \in {command_enter(Editor, write_ok)} :
              BecomesEditor(r.e) /\ quit' = r.quit

NextQuit == QuitNormalMode \/ QuitInsertMode \/ QuitCommandMode \/ QuitEnter

\* Text typed and deleted between command lines that save and quit.
SpecQuit == Init /\ [][NextQuit]_vars

\* ------------------------------------------------------- BufferManager calls
ManagerPaths == {"p", "q"}

OnlyManager ==
    UNCHANGED <<buffer, cursor, mode, scroll_offset, message, registers, pending_op,
                last_find, numeric_prefix, pending_g, selection, search, command_buffer,
                fatal, scan, quit>>

\* open_file of a path, the read succeeding or failing.
BmOpenFile ==
    /\ Len(buffer_manager.buffers) < MaxBuffers
    /\ \E path \in ManagerPaths : \E read_ok \in BOOLEAN :
          buffer_manager' = BufferManager_open_file(buffer_manager, path, <<>>, read_ok).m
    /\ OnlyManager

\* switch_to of an index within the range or beyond it.
BmSwitchTo ==
    /\ \E idx \in 0..MaxBuffers :
          buffer_manager' = BufferManager_switch_to(buffer_manager, idx).m
    /\ OnlyManager

BmNextBuffer ==
    /\ buffer_manager' = BufferManager_next_buffer(buffer_manager)
    /\ OnlyManager

BmPrevBuffer ==
    /\ buffer_manager' = BufferManager_prev_buffer(buffer_manager)
    /\ OnlyManager

BmCloseCurrent ==
    /\ buffer_manager' = BufferManager_close_current(buffer_manager)
    /\ OnlyManager

NextManager == BmOpenFile \/ BmSwitchTo \/ BmNextBuffer \/ BmPrevBuffer \/ BmCloseCurrent

\* The calls of a BufferManager in any order, up to MaxBuffers buffers open.
SpecManager == Init /\ [][NextManager]_vars

\* ------------------------------------------------------------ Search calls
SearchChars == {"a", "A", NL}
SearchPatterns == {<<>>, <<"a">>, <<"A", "a">>}
SearchPositions == 0..MaxLenSearch

\* A cursor at (line, col), as the calls are handed one.
CursorAt(line, col) == [line |-> line, col |-> col, sticky_col |-> col]

OnlySearch ==
    UNCHANGED <<buffer, cursor, mode, scroll_offset, message, registers, pending_op,
                last_find, numeric_prefix, pending_g, buffer_manager, selection,
                command_buffer, fatal, scan, quit>>

\* The text searched grows at its end.
SrchInsertChar ==
    /\ Len(buffer.rope) < MaxLenSearch
    /\ \E ch \in SearchChars :
          buffer' = Buffer_insert_char(buffer, Len(buffer.rope), ch)
    /\ UNCHANGED <<cursor, mode, scroll_offset, message, registers, pending_op,
                   last_find, numeric_prefix, pending_g, buffer_manager, selection,
                   search, command_buffer, fatal, scan, quit>>

SrchSearch ==
    /\ \E pattern \in SearchPatterns : \E direction \in SearchDirections :
          search' = Search_search(search, pattern, direction, buffer)
    /\ OnlySearch

SrchNextMatch ==
    /\ \E line \in SearchPositions : \E col \in SearchPositions :
          search' = Search_next_match(search, CursorAt(line, col), buffer).search
    /\ OnlySearch

SrchJumpNext ==
    /\ search' = Search_jump_next(search, cursor).search
    /\ OnlySearch

SrchJumpPrev ==
    /\ search' = Search_jump_prev(search, cursor).search
    /\ OnlySearch

SrchClear ==
    /\ search' = Search_clear(search)
    /\ OnlySearch

NextSearch ==
    SrchInsertChar \/ SrchSearch \/ SrchNextMatch \/ SrchJumpNext \/ SrchJumpPrev \/ SrchClear

\* Any sequence of Search calls over any text of up to MaxLenSearch characters.
SpecSearch == Init /\ [][NextSearch]_vars

\* ------------------------------------------------------------------ claims
\* Every key event the model knows, whatever the mode.
AllKeys == CommandKeys \cup AllTextKeys

CursorValid(e) ==
    /\ e.cursor.line < Buffer_line_count(e.buffer)
    /\ e.cursor.col <= Buffer_line_len(e.buffer, e.cursor.line)

\* The Editor e1 is e after an edit: the key event changed the rope and was
\* not an undo or a redo.
Edited(e, e1) ==
    /\ ~e1.fatal
    /\ e1.buffer.rope # e.buffer.rope
    /\ e1.message \notin {"Undo", "Redo"}

\* The key event is an edit of e.
IsEdit(e, key) == Edited(e, handle_key(e, key))

\* C1: undo pressed immediately after an edit restores the buffer content and
\* the cursor to what they were immediately before that edit.
C1_UndoRestoresPreEdit ==
    ~fatal =>
      \A key \in AllKeys :
        LET e1 == handle_key(Editor, key)
            e2 == normal_u([e1 EXCEPT !.message = None])
        IN  Edited(Editor, e1) =>
              /\ e2.message = "Undo"
              /\ e2.buffer.rope = buffer.rope
              /\ e2.cursor.line = cursor.line
              /\ e2.cursor.col = cursor.col

\* C2: whenever undo succeeds, an immediately following redo restores exactly
\* the content and the cursor position held just before the undo (Buffer::undo
\* then Buffer::redo, and the u key then Ctrl-r), and nothing is left to redo
\* when that was the only undone entry.
C2_RedoRestoresUndone ==
    LET u == Buffer_undo(buffer, cursor.line, cursor.col)
        r == Buffer_redo(u.b)
        e1 == handle_key(Editor, Ch("u"))
        e2 == handle_key(e1, Ctrl("r"))
    IN  /\ u.ret.some =>
             /\ r.ret = SomePos(cursor.line, cursor.col)
             /\ r.b.rope = buffer.rope
             /\ Len(u.b.history.redo_stack) = 1 => ~History_can_redo(r.b.history)
        /\ (~fatal /\ mode = "Normal" /\ pending_op = None /\ e1.message = "Undo") =>
             /\ e2.message = "Redo"
             /\ e2.buffer.rope = buffer.rope
             /\ CursorValid(Editor) => (e2.cursor.line = cursor.line /\ e2.cursor.col = cursor.col)

\* C2 witness: a redo has just restored a non-empty text and nothing is left to redo.
C2_Witness ==
    /\ message = "Redo"
    /\ buffer.rope # <<>>
    /\ ~History_can_redo(buffer.history)

\* C3: after History::record the redo stack is empty and redo returns None:
\* for the call itself, and for every edit key, after which Ctrl-r finds
\* nothing; only an undo makes the redo stack grow.
C3_RecordClearsRedo ==
    /\ LET h == History_record(buffer.history, buffer.rope, cursor.line, cursor.col)
       IN  h.redo_stack = <<>> /\ ~History_redo(h).ret.some
    /\ ~fatal =>
         \A key \in AllKeys :
           LET e1 == handle_key(Editor, key)
           IN  /\ Edited(Editor, e1) =>
                    /\ e1.buffer.history.redo_stack = <<>>
                    /\ normal_redo(e1).message = "Already at newest change"
               /\ Len(e1.buffer.history.redo_stack) > Len(buffer.history.redo_stack) =>
                    e1.message = "Undo"

\* C3 witness: something can be redone and the next character typed discards it.
C3_Witness ==
    /\ ~fatal
    /\ mode = "Insert"
    /\ History_can_redo(buffer.history)
    /\ IsEdit(Editor, Ch("a"))
    /\ ~History_can_redo(handle_key(Editor, Ch("a")).buffer.history)

\* C4: the undo stack is never empty and its bottom entry is the base snapshot
\* pushed by History::init.
C4_BaseSnapshotStays ==
    /\ Len(buffer.history.undo_stack) >= 1
    /\ buffer.history.undo_stack[1] = BaseSnapshot

\* C5: with only the base snapshot on the undo stack, undo returns None and
\* changes nothing; the u key changes the status message alone.
C5_UndoAtBaseChangesNothing ==
    Len(buffer.history.undo_stack) = 1 =>
      /\ History_undo(buffer.history, buffer.rope, cursor.line, cursor.col)
           = [h |-> buffer.history, ret |-> NoRestore]
      /\ Buffer_undo(buffer, cursor.line, cursor.col) = [b |-> buffer, ret |-> NoPos]
      /\ (~fatal /\ mode = "Normal" /\ pending_op \notin {"r", "f", "F"}) =>
           handle_key(Editor, Ch("u")) = [Editor EXCEPT !.message = "Already at oldest change"]

\* C5 witness: the u key has just found nothing to undo on a buffer that was edited.
C5_Witness ==
    /\ message = "Already at oldest change"
    /\ Len(buffer.history.undo_stack) = 1
    /\ buffer.rope # <<>>
    /\ buffer.modified

\* C6: after every key event the cursor is on a line of the buffer and not
\* beyond that line's end.
C6_CursorInBounds == ~fatal => CursorValid(Editor)

\* C7: no sequence of key events reaches a fatal state.
C7_NeverFatal == ~fatal

\* The operators that wait for a second press.
LineOperators == {"d", "y", "c", ">", "<"}

\* C8: in Normal mode, with one of d y c > < pending, any other key leaves that
\* operator no longer pending, so a later single press does not run it.
C8_OtherKeyCancelsOperator ==
    (~fatal /\ mode = "Normal" /\ pending_op \in LineOperators) =>
      \A key \in AllKeys :
        ~IsChar(key, pending_op) => handle_key(Editor, key).pending_op # pending_op

\* The command keys of the claim that take no count.
CountlessChars == {"x", "i", "p", "u", "d", "$", "G"}

\* C9: in Normal mode, a command key that does not consume the numeric prefix
\* leaves the prefix empty.
C9_CommandClearsPrefix ==
    (~fatal /\ mode = "Normal" /\ pending_op \notin {"r", "f", "F"}) =>
      \A c \in CountlessChars :
        LET e1 == handle_key(Editor, Ch(c))
        IN  ~e1.fatal => e1.numeric_prefix = <<>>

\* C10: on a buffer of n >= 2 lines, dd on line i removes exactly that line
\* and its terminator, leaving n - 1 lines and the other lines as they were,
\* and sets the unnamed register and numbered register 1 to Lines(text of
\* line i followed by a newline).
C10_DeleteLineRemovesLine ==
    (/\ ~fatal
     /\ mode = "Normal"
     /\ pending_op = "d"
     /\ CursorValid(Editor)
     /\ Buffer_line_count(buffer) >= 2) =>
      LET e1 == handle_key(Editor, Ch("d"))
          n == Buffer_line_count(buffer)
          i == cursor.line
          removed == Lines(Append(Buffer_line(buffer, i), NL))
      IN  /\ Buffer_line_count(e1.buffer) = n - 1
          /\ \A j \in 0..(i - 1) : Buffer_line(e1.buffer, j) = Buffer_line(buffer, j)
          /\ \A j \in (i + 1)..(n - 1) : Buffer_line(e1.buffer, j - 1) = Buffer_line(buffer, j)
          /\ e1.registers.unnamed = removed
          /\ e1.registers.numbered[2] = removed

\* The registers after Registers::delete of each content of ds in turn.
RECURSIVE DeleteAll(_, _)
DeleteAll(r, ds) ==
    IF ds = <<>> THEN r ELSE DeleteAll(Registers_delete(r, Head(ds)), Tail(ds))

\* Contents Registers::delete does not take for small: line-wise, and
\* character-wise with a newline.
BigContents == {Lines(<<"a", NL>>), Chars(<<"b", NL>>)}

\* C11: after any run of n non-small deletes from a reachable register
\* state (n up to the number of slots, so that the oldest falls out), numbered slot k (1..9) holds the k-th most recent of them, the
\* slots beyond n hold what was n slots nearer before, nothing older than
\* the ninth is kept, and slot 0 is as it was.
C11_NumberedHoldRecentDeletes ==
    \A n \in 0..NUMBERED_SLOTS : \A ds \in [1..n -> BigContents] :
        LET r == DeleteAll(registers, ds)
        IN  /\ \A k \in 1..9 :
                  r.numbered[k + 1] = IF k <= n THEN ds[n - k + 1]
                                      ELSE registers.numbered[k - n + 1]
            /\ r.numbered[1] = registers.numbered[1]

\* Nine big deletes and a yank have happened: the next delete discards one.
C11_Witness ==
    /\ \A k \in 1..9 : registers.numbered[k + 1].kind # None
    /\ registers.numbered[1].kind # None

\* Contents Registers::delete takes for small: character-wise, no newline.
SmallContents == {Chars(<<>>), Chars(<<"a">>), Chars(<<"b", "b">>)}

\* C12: in every reachable register state, Registers::delete of a
\* character-wise content without newline puts it in the small-delete and the
\* unnamed register and leaves numbered 0..9 and the named registers as they were.
C12_SmallDeleteFrame ==
    \A c \in SmallContents :
        LET r == Registers_delete(registers, c)
        IN  /\ r.small_delete = c
            /\ r.unnamed = c
            /\ r.numbered = registers.numbered
            /\ r.named = registers.named

\* A small delete has happened where numbered and named registers are in use.
C12_Witness ==
    /\ registers.small_delete.kind = "Chars"
    /\ registers.numbered[1].kind # None
    /\ registers.numbered[2].kind # None
    /\ registers.named["a"].kind # None

\* C13: in every reachable register state, Registers::yank puts the content in
\* the unnamed register and numbered slot 0 and leaves numbered 1..9, the
\* small-delete register and the named registers as they were.
C13_YankFrame ==
    \A c \in SmallContents \cup BigContents :
        LET r == Registers_yank(registers, c)
        IN  /\ r.unnamed = c
            /\ r.numbered[1] = c
            /\ \A k \in 1..9 : r.numbered[k + 1] = registers.numbered[k + 1]
            /\ r.small_delete = registers.small_delete
            /\ r.named = registers.named

\* A yank has happened where deletes of both sizes and a named register are kept.
C13_Witness ==
    /\ registers.numbered[1].kind # None
    /\ registers.unnamed = registers.numbered[1]
    /\ registers.numbered[3].kind # None
    /\ registers.small_delete.kind # None
    /\ registers.named["a"].kind # None

\* The contents a named register is handed in the claims below.
NamedContents == {Chars(<<"b">>), Lines(<<"b", NL>>), Block(<<<<"b">>>>)}

\* C14: in every reachable register state and for every letter, set_named
\* under the lowercase name replaces the slot; under the uppercase name it
\* appends to the lowercase slot when both contents are Chars or both are
\* Lines (old text, then new text) and replaces it when the kinds differ or
\* the slot is empty; get and get_named read that slot under either case.
C14_SetNamedAppendsOrReplaces ==
    \A l \in NamedLetters : \A c \in NamedContents :
        LET upper == ToggleCase(l)
            old == registers.named[l]
            lowered == Registers_set_named(registers, l, c)
            raised == Registers_set_named(registers, upper, c)
        IN  /\ lowered.named[l] = c
            /\ raised.named[l] =
                  IF old.kind = c.kind /\ c.kind \in {"Chars", "Lines"}
                  THEN [kind |-> old.kind, text |-> old.text \o c.text]
                  ELSE c
            /\ \A r \in {registers, lowered, raised} :
                  /\ Registers_get_named(r, l) = r.named[l]
                  /\ Registers_get_named(r, upper) = r.named[l]
                  /\ Registers_get(r, l) = r.named[l]
                  /\ Registers_get(r, upper) = r.named[l]

\* An uppercase set_named has appended to register a.
C14_Witness == registers.named["a"] = Chars(<<"a", "a">>)

\* C15: in every reachable register state, Registers::set on the black hole,
\* as a yank or as a delete, leaves all registers as they were, and
\* get('_') is None.
C15_BlackHoleDiscards ==
    /\ \A c \in SmallContents \cup BigContents : \A is_delete \in BOOLEAN :
          Registers_set(registers, "_", c, is_delete) = registers
    /\ Registers_get(registers, "_") = NoContent

\* Every kind of register holds something while the black hole reads None.
C15_Witness ==
    /\ registers.unnamed.kind # None
    /\ registers.small_delete.kind # None
    /\ registers.numbered[1].kind # None
    /\ registers.numbered[10].kind # None
    /\ registers.named["a"].kind = "Lines"

\* Line-then-column order of two positions.
PosLeq(l1, c1, l2, c2) == l1 < l2 \/ (l1 = l2 /\ c1 <= c2)

\* C16: for every anchor and cursor position, Selection::normalized returns
\* a start that is not after the end in line-then-column order, and start
\* and end are the anchor and the cursor, in one order or the other.
C16_NormalizedOrdersAnchorAndCursor ==
    selection.mode # None =>
        LET n == Selection_normalized(selection)
            start == <<n[1], n[2]>>
            end == <<n[3], n[4]>>
            anchor == <<selection.anchor_line, selection.anchor_col>>
            cur == <<selection.cursor_line, selection.cursor_col>>
        IN  /\ PosLeq(n[1], n[2], n[3], n[4])
            /\ \/ start = anchor /\ end = cur
               \/ start = cur /\ end = anchor

\* The cursor is on an earlier line than the anchor and at a later column.
C16_Witness ==
    /\ selection.mode # None
    /\ selection.cursor_line < selection.anchor_line
    /\ selection.cursor_col > selection.anchor_col

\* C17: Buffer::line_count() is at least 1 in every state the editing calls
\* of Buffer reach, the emptied buffer included.
C17_LineCountAtLeastOne == Buffer_line_count(buffer) >= 1

\* All content has been removed again, with an undo entry recorded.
C17_Witness ==
    /\ buffer.rope = <<>>
    /\ buffer.modified
    /\ Len(buffer.history.undo_stack) > 1
    /\ ~fatal

\* The rope r without the characters that start at byte offsets in [from, to).
RemoveBytes(r, from, to) ==
    LET kept == SelectSeq([i \in 1..Len(r) |-> i],
                          LAMBDA i : LET at == len_bytes(SubSeq(r, 1, i - 1))
                                     IN  at < from \/ at >= to)
    IN  [k \in 1..Len(kept) |-> r[kept[k]]]

\* C18: Buffer::delete(start, end) clamps end to the content length and
\* start to end, and removes that range: with end beyond the length it
\* removes [start, len).
C18_DeleteClampsEnd ==
    \A start \in BufPositions : \A end \in 0..MaxLenBuf + 3 :
        LET len == Buffer_len(buffer)
            clamped_end == Min(end, len)
            clamped_start == Min(start, clamped_end)
        IN  Buffer_delete(buffer, start, end).rope
                = RemoveBytes(buffer.rope, clamped_start, clamped_end)

\* The byte offsets where a character of the rope starts, and its end.
CharBoundaries(r) == {len_bytes(SubSeq(r, 1, i)) : i \in 0..Len(r)}

\* C19: for every reachable content, every valid byte position p and every
\* text s, insert(p, s) and then delete(p, p + len(s)) go through and leave
\* the content as it was.
C19_InsertThenDeleteRestores ==
    ~fatal =>
        \A p \in CharBoundaries(buffer.rope) : \A s \in BufTexts \cup {<<>>, <<"a">>, <<"a", NL>>} :
            /\ ~Buffer_insert_panics(buffer, p)
            /\ LET inserted == Buffer_insert(buffer, p, s)
               IN  /\ ~Buffer_delete_panics(inserted, p, p + len_bytes(s))
                   /\ Buffer_delete(inserted, p, p + len_bytes(s)).rope = buffer.rope

\* C20: for every buffer and every cursor value, Cursor::clamp leaves the
\* cursor on a line of the buffer and at a column up to that line's length,
\* and leaves a cursor that was within these bounds as it was.
C20_ClampPutsCursorInBounds ==
    LET c == Cursor_clamp(cursor, buffer)
    IN  /\ c.line < Buffer_line_count(buffer)
        /\ c.col <= Buffer_line_len(buffer, c.line)
        /\ (/\ cursor.line < Buffer_line_count(buffer)
            /\ cursor.col <= Buffer_line_len(buffer, cursor.line)) => c = cursor

\* Line and column are both out of range over a text of two lines.
C20_Witness ==
    /\ Buffer_line_count(buffer) = 2
    /\ cursor.line >= Buffer_line_count(buffer)
    /\ cursor.col > Buffer_line_len(buffer, Buffer_line_count(buffer) - 1)
    /\ Buffer_line_len(buffer, 1) > 0

\* C21: after any sequence of search, next_match, jump_next, jump_prev and
\* clear, current_match is None or an index into the stored matches; jump_next
\* and jump_prev step to the neighbouring index in the search direction and
\* wrap around (last to 0, 0 to last), and return None only without matches.
C21_CurrentMatchValidAndJumpsWrap ==
    LET n == Len(search.matches)
        current == current_or_zero(search)
        up == SomeIndex((current + 1) % Max(n, 1))
        down == SomeIndex((current + Max(n, 1) - 1) % Max(n, 1))
        next == Search_jump_next(search, cursor)
        prev == Search_jump_prev(search, cursor)
    IN  /\ search.current_match.some => search.current_match.idx < n
        /\ next.ret.some <=> n > 0
        /\ prev.ret.some <=> n > 0
        /\ n > 0 =>
              /\ next.search.current_match = IF search.direction = "Forward" THEN up ELSE down
              /\ prev.search.current_match = IF search.direction = "Forward" THEN down ELSE up
              /\ next.ret = SomeMatch(search.matches[next.search.current_match.idx + 1])
              /\ prev.ret = SomeMatch(search.matches[prev.search.current_match.idx + 1])

\* The last of three matches is the current one: the next jump wraps.
C21_Witness ==
    /\ Len(search.matches) = 3
    /\ search.current_match = SomeIndex(2)
    /\ search.direction = "Forward"
    /\ Search_jump_next(search, cursor).search.current_match = SomeIndex(0)

\* C22: next_match with forward direction selects the first match in document
\* order at or after the cursor, a match starting at the cursor included, else
\* the first match; with backward direction the last match strictly before
\* the cursor, else the last match.
C22_NextMatchNearestToCursor ==
    \A line \in SearchPositions : \A col \in SearchPositions :
        search.matches # <<>> =>
            LET at_or_after == {i \in 1..Len(search.matches) :
                                  \/ search.matches[i].line > line
                                  \/ /\ search.matches[i].line = line
                                     /\ search.matches[i].start_col >= col}
                before == {i \in 1..Len(search.matches) :
                             \/ search.matches[i].line < line
                             \/ /\ search.matches[i].line = line
                                /\ search.matches[i].start_col < col}
                expected ==
                    IF search.direction = "Forward"
                    THEN IF at_or_after = {} THEN 1
                         ELSE CHOOSE i \in at_or_after : \A j \in at_or_after : i <= j
                    ELSE IF before = {} THEN Len(search.matches)
                         ELSE CHOOSE i \in before : \A j \in before : i >= j
                found == Search_next_match(search, CursorAt(line, col), buffer)
            IN  /\ found.search.current_match = SomeIndex(expected - 1)
                /\ found.ret = SomeMatch(search.matches[expected])

\* C23: in Command mode the only keys that change the mode are Enter and Esc,
\* both leading to Normal, or to Help when the executed command is the help
\* command; every other key, Backspace on an empty command line included,
\* leaves the mode unchanged.
C23_OnlyEnterAndEscLeaveCommandMode ==
    mode = "Command" =>
        \A key \in CommandLineKeys :
            LET e == handle_key(Editor, key)
            IN  IF key.code = "Esc" THEN e.mode = "Normal"
                ELSE IF key.code = "Enter"
                THEN e.mode = IF trim(command_buffer) \in HelpCommands THEN "Help" ELSE "Normal"
                ELSE e.mode = "Command"

\* The text between the normalized ends of a Char selection, both included,
\* and the whole lines of a Line selection, each with a line break (the last
\* line of the rope has none of its own).
SelectedText(b, sel) ==
    LET n == Selection_normalized(sel)
        from == line_to_char(b.rope, n[1]) + n[2]
        to == line_to_char(b.rope, n[3]) + Min(n[4] + 1, Buffer_line_len(b, n[3]))
        whole == Slice(b.rope, line_to_char(b.rope, n[1]), line_to_char(b.rope, n[3] + 1))
    IN  IF sel.mode = "Char" THEN Slice(b.rope, from, to)
        ELSE IF n[3] + 1 < len_lines(b.rope) THEN whole
        ELSE Append(whole, NL)

\* C24: from any visual mode, Esc, y, d and x end in Normal mode with the
\* selection cleared; y leaves the buffer as it was and stores the selected
\* text in the unnamed register.
C24_VisualEndKeysLeaveVisualMode ==
    (IsVisual(mode) /\ ~fatal) =>
        \A key \in VisualEndKeys :
            LET e == handle_key(Editor, key)
            IN  /\ e.mode = "Normal"
                /\ e.selection = NoSelection
                /\ IsChar(key, "y") =>
                      /\ e.buffer = buffer
                      /\ e.registers.unnamed.kind
                            = IF selection.mode = "Line" THEN "Lines" ELSE "Chars"
                      /\ selection.mode # "Block" =>
                            e.registers.unnamed.text = SelectedText(buffer, selection)

\* C30: entering a visual mode puts the anchor at the cursor, and as long as
\* the editor stays in a visual mode no key moves it: motions change the
\* selection's cursor end, v and V its mode.
C30_AnchorStaysAtEntry ==
    /\ (~fatal /\ mode = "Normal") =>
            \A key \in VisualEntryKeys :
                LET e == handle_key(Editor, key)
                IN  IsVisual(e.mode) =>
                        /\ e.cursor = cursor
                        /\ e.selection.anchor_line = cursor.line
                        /\ e.selection.anchor_col = cursor.col
    /\ (~fatal /\ IsVisual(mode)) =>
            \A key \in VisualKeys \cup VisualEntryKeys \cup
                        {Ch("^"), Ch("z"), Special("Left"), Special("Down")} :
                LET e == handle_key(Editor, key)
                IN  (IsVisual(e.mode) /\ ~e.fatal) =>
                        /\ e.selection.anchor_line = selection.anchor_line
                        /\ e.selection.anchor_col = selection.anchor_col
                        /\ e.selection.cursor_line = e.cursor.line
                        /\ e.selection.cursor_col = e.cursor.col

\* A selection whose cursor end has left the anchor's line and column, in a
\* mode it was switched to.
C30_Witness ==
    /\ mode = "VisualLine"
    /\ selection.mode = "Line"
    /\ selection.cursor_line > selection.anchor_line
    /\ selection.cursor_col < selection.anchor_col
    /\ handle_key(Editor, Ch("v")).selection.anchor_col = selection.anchor_col

\* The buffers one more call of Buffer leaves: every editing call, undo, redo
\* and checkpoint, with every argument within the rope and one beyond.
EditResults(b) ==
    LET at == 0..Len(b.rope) + 1
    IN  {Buffer_insert(b, pos, text) : pos \in 0..Len(b.rope), text \in {<<"a">>, <<NL>>}}
        \cup {Buffer_delete(b, start, end) : start \in at, end \in at}
        \cup {Buffer_delete_grapheme(b, line, col) : line \in at, col \in at}
        \cup {Buffer_backspace(b, pos[1], pos[2]).b :
                 pos \in {q \in at \X at : ~Buffer_backspace_panics(b, q[1], q[2])}}
        \cup {Buffer_delete_line(b, line) : line \in at}
        \cup {Buffer_insert_line_below(b, line, <<"a", NL>>) : line \in at}
        \cup {Buffer_insert_line_above(b, line, <<"a", NL>>) :
                 line \in {l \in at : ~Buffer_insert_line_above_panics(b, l)}}
        \cup {Buffer_join_lines(b, line) :
                 line \in {l \in at : ~Buffer_join_lines_panics(b, l)}}
        \cup {Buffer_indent_line(b, line, TAB_WIDTH) : line \in at}
        \cup {Buffer_outdent_line(b, line, TAB_WIDTH) : line \in at}
        \cup {Buffer_undo(b, 0, 0).b, Buffer_redo(b).b, Buffer_checkpoint(b, 0, 0)}

\* C25: only a save or save_as whose write succeeded clears the modified
\* flag; a failing save or save_as leaves flag and file path as they were;
\* every call that changes the content sets the flag.
C25_ModifiedClearedOnlyBySuccessfulSave ==
    /\ \A r \in EditResults(buffer) :
          /\ r.rope # buffer.rope => r.modified
          /\ buffer.modified => r.modified
          /\ r.file_path = buffer.file_path
    /\ \A write_ok \in BOOLEAN :
          LET saved == Buffer_save(buffer, write_ok)
          IN  /\ ~saved.ok => saved.b = buffer
              /\ (buffer.modified /\ ~saved.b.modified) => (saved.ok /\ write_ok)
              /\ saved.b.rope = buffer.rope
    /\ \A write_ok \in BOOLEAN : \A path \in SavePaths :
          LET saved == Buffer_save_as(buffer, path, write_ok)
          IN  /\ ~saved.ok => saved.b = buffer
              /\ saved.ok <=> write_ok
              /\ (buffer.modified /\ ~saved.b.modified) => saved.ok
              /\ saved.b.rope = buffer.rope

\* An edited buffer that was saved under a path and edited again: the next
\* save to another path fails.
C25_Witness ==
    /\ buffer.modified
    /\ buffer.file_path = "p"
    /\ Len(buffer.rope) = 2
    /\ Len(buffer.history.undo_stack) > 1
    /\ Buffer_save_as(buffer, "q", FALSE).b.file_path = "p"
    /\ ~Buffer_save(buffer, TRUE).b.modified

\* C26: move_up and move_down leave sticky_col alone and put the column at
\* min(sticky_col, length of the new line); so from a cursor whose sticky
\* column is its column, k lines down and k lines up again, short of the
\* last line, end where they began.
C26_VerticalRoundTrip ==
    LET up == Cursor_move_up(cursor, buffer)
        down == Cursor_move_down(cursor, buffer)
        last == Buffer_line_count(buffer) - 1
    IN  /\ up.sticky_col = cursor.sticky_col
        /\ down.sticky_col = cursor.sticky_col
        /\ cursor.line > 0 =>
              /\ up.line = cursor.line - 1
              /\ up.col = Min(cursor.sticky_col, Buffer_line_len(buffer, up.line))
        /\ cursor.line < last =>
              /\ down.line = cursor.line + 1
              /\ down.col = Min(cursor.sticky_col, Buffer_line_len(buffer, down.line))
        /\ \A k \in 1..MaxLenMove :
              (cursor.sticky_col = cursor.col /\ cursor.line + k <= last) =>
                  MoveTimes("up", MoveTimes("down", cursor, buffer, k), buffer, k) = cursor

\* Two lines below a longer line, the column clamped on the way down: two
\* lines up lead back to it.
C26_Witness ==
    /\ cursor = [line |-> 2, col |-> 0, sticky_col |-> 2]
    /\ Buffer_line_len(buffer, 0) = 2
    /\ MoveTimes("up", cursor, buffer, 2) = [line |-> 0, col |-> 2, sticky_col |-> 2]

\* The keys that move the cursor along the line or edit the text.
HorizontalKeys ==
    {Ch(c) : c \in {"h", "l", "w", "b", "e", "$", ";", ",", "x", "J", "p", "P"}}
        \cup {Special("Left"), Special("Right")}

\* C27: after every key that moves the cursor horizontally or edits text
\* (h, l, w, b, e, $, f/F and their repeats, typed characters, Backspace,
\* paste, x, J), sticky_col is the cursor's column.
C27_StickyColFollowsCol ==
    ~fatal =>
        \A key \in HorizontalKeys \cup {Ch("a"), Special("Backspace")} :
            LET e == handle_key(Editor, key)
                concerned ==
                    \/ mode = "Insert" /\ key \in {Ch("a"), Special("Backspace"),
                                                   Special("Left"), Special("Right")}
                    \/ mode = "Normal" /\ pending_op \in {"f", "F"} /\ key = Ch("a")
                    \/ mode = "Normal" /\ pending_op = None /\ key \in HorizontalKeys
            IN  (concerned /\ ~e.fatal) => e.cursor.sticky_col = e.cursor.col

\* The text with the line break ending the line replaced by sep.
JoinedWith(b, line, sep) ==
    LET next_line_start == line_to_char(b.rope, line + 1)
    IN  SubSeq(b.rope, 1, next_line_start - 1) \o sep
            \o SubSeq(b.rope, next_line_start + 1, Len(b.rope))

\* C28: Buffer::join_lines(idx) with a following line takes one line off the
\* line count and leaves A, one space, B where A does not end in whitespace,
\* and A directly followed by B where it does (an empty A may take either).
C28_JoinPutsSpaceAtJoinPoint ==
    ~fatal =>
        \A line \in 0..MaxLenJoin :
            line + 1 < Buffer_line_count(buffer) =>
                LET A == Buffer_line(buffer, line)
                    seps == IF Len(A) = 0 THEN {<<>>, <<SPACE>>}
                            ELSE IF IsWhitespace(A[Len(A)]) THEN {<<>>}
                            ELSE {<<SPACE>>}
                    joined == Buffer_join_lines(buffer, line)
                IN  /\ ~Buffer_join_lines_panics(buffer, line)
                    /\ \E sep \in seps : joined.rope = JoinedWith(buffer, line, sep)
                    /\ len_lines(joined.rope) = len_lines(buffer.rope) - 1

\* The (line, col) positions of the text: a line, and a column up to its end.
BufferPositions(b) ==
    {p \in (0..MaxLenBuf) \X (0..MaxLenBuf) :
        p[1] < Buffer_line_count(b) /\ p[2] <= Buffer_line_len(b, p[1])}

\* C29: Buffer::backspace(line, col) with col > 0 removes the grapheme at
\* col-1 and returns (line, col-1); with col = 0 and line > 0 it removes the
\* previous line's newline and returns (line-1, that line's old length); at
\* (0, 0) it changes nothing and returns (0, 0).
C29_BackspaceRemovesGraphemeBefore ==
    ~fatal =>
        \A p \in BufferPositions(buffer) :
            LET line == p[1]
                col == p[2]
                at == line_to_char(buffer.rope, line) + col
                r == Buffer_backspace(buffer, line, col)
            IN  /\ ~Buffer_backspace_panics(buffer, line, col)
                /\ IF col > 0
                   THEN /\ r.b.rope = Remove(buffer.rope, at - 1, at)
                        /\ <<r.line, r.col>> = <<line, col - 1>>
                   ELSE IF line > 0
                   THEN /\ r.b.rope = Remove(buffer.rope, at - 1, at)
                        /\ <<r.line, r.col>> = <<line - 1, Buffer_line_len(buffer, line - 1)>>
                   ELSE /\ r.b.rope = buffer.rope
                        /\ <<r.line, r.col>> = <<0, 0>>

\* C31: the content History compares against is that of its newest snapshot,
\* and History::record called with that content pushes nothing: the undo stack
\* keeps its length and its entries.
C31_RecordOfSameContentPushesNothing ==
    LET h == buffer.history
        newest == h.undo_stack[Len(h.undo_stack)]
    IN  /\ h.current_content = SomeRope(newest.content)
        /\ \A content \in HistContents :
               content = newest.content =>
                   History_record(h, content, cursor.line, cursor.col).undo_stack
                       = h.undo_stack
        /\ buffer.rope = newest.content =>
               Buffer_checkpoint(buffer, cursor.line, cursor.col).history.undo_stack
                   = h.undo_stack

\* C31 witness: after records and an undo the text is again the newest
\* snapshot's, and the checkpoint taken now leaves the undo stack alone.
C31_Witness ==
    /\ Len(buffer.history.undo_stack) >= 2
    /\ Len(buffer.history.redo_stack) > 0
    /\ buffer.rope = buffer.history.current_content.rope
    /\ Buffer_checkpoint(buffer, cursor.line, cursor.col).history.undo_stack
           = buffer.history.undo_stack

\* C32: the undo stack never holds more than MAX_HISTORY_SIZE snapshots,
\* whatever record, undo or redo comes next; a record on a full stack drops
\* entry 0 alone and keeps the others in order below the new one.
C32_UndoStackWithinCapacity ==
    LET h == buffer.history
        n == Len(h.undo_stack)
    IN  /\ n <= MAX_HISTORY_SIZE
        /\ Len(History_redo(h).h.undo_stack) <= MAX_HISTORY_SIZE
        /\ Len(History_undo(h, buffer.rope, cursor.line, cursor.col).h.undo_stack)
               <= MAX_HISTORY_SIZE
        /\ \A content \in HistContents :
               LET r == History_record(h, content, cursor.line, cursor.col).undo_stack
                   snapshot == Snapshot(content, cursor.line, cursor.col)
               IN  /\ Len(r) <= MAX_HISTORY_SIZE
                   /\ content # h.current_content.rope =>
                          IF n = MAX_HISTORY_SIZE
                          THEN /\ Len(r) = n
                               /\ r[n] = snapshot
                               /\ \A i \in 1..(n - 1) : r[i] = h.undo_stack[i + 1]
                          ELSE r = Append(h.undo_stack, snapshot)

\* C32 witness: a record found the stack full and the oldest entry, the base
\* snapshot, went.
C32_Witness ==
    /\ Len(buffer.history.undo_stack) = MAX_HISTORY_SIZE
    /\ buffer.history.undo_stack[1] # BaseSnapshot

\* The editor after the key is pressed count times with no prefix typed; a
\* press that changes nothing ends the run.
RECURSIVE Presses(_, _, _)
PressAgain(e, next, key, count) ==
    IF next = e \/ next.fatal THEN next ELSE Presses(next, key, count - 1)

Presses(e, key, count) ==
    IF count <= 0 THEN e ELSE PressAgain(e, handle_key(e, key), key, count)

\* C33: in Normal mode a count N typed as digits and then one of h j k l w b e
\* leaves the cursor where N presses of the key leave it, with the prefix
\* empty; 0 typed with no prefix is the line-start motion and no digit.
C33_CountRepeatsMotion ==
    (~fatal /\ mode = "Normal" /\ pending_op = None /\ ~pending_g) =>
        /\ numeric_prefix # <<>> =>
              \A key \in CountMotionKeys :
                  LET e == handle_key(Editor, key)
                      pressed == Presses([Editor EXCEPT !.numeric_prefix = <<>>,
                                                        !.message = None],
                                         key, motion_count_unbounded(Editor))
                  IN  (~e.fatal /\ ~pressed.fatal) =>
                          /\ e.cursor = pressed.cursor
                          /\ e.numeric_prefix = <<>>
        /\ numeric_prefix = <<>> =>
              /\ handle_key(Editor, Ch("0")).numeric_prefix = <<>>
              /\ handle_key(Editor, Ch("0")).cursor = Cursor_move_to_line_start(cursor)
              /\ handle_key(Editor, Ch("3")).numeric_prefix = <<"3">>
        /\ numeric_prefix # <<>> =>
              handle_key(Editor, Ch("0")).numeric_prefix = Append(numeric_prefix, "0")

\* How many of the characters from..to (1-based) of a text are ch.
CountOf(r, ch, from, to) == Cardinality({k \in from..to : r[k] = ch})

\* The 1-based place in the text of the delimiter balancing the one at place
\* at, 0 when there is none: the nearest place of the other delimiter of the
\* pair with as many of it as of the first between the two, ends included.
Balancing(r, at) ==
    LET pair == bracket_target(r[at])
        hits == IF pair.forward
                THEN {j \in (at + 1)..Len(r) :
                        /\ r[j] = pair.target
                        /\ CountOf(r, r[at], at, j) = CountOf(r, pair.target, at, j)}
                ELSE {j \in 1..(at - 1) :
                        /\ r[j] = pair.target
                        /\ CountOf(r, r[at], j, at) = CountOf(r, pair.target, j, at)}
    IN  IF pair.target = None \/ hits = {} THEN 0
        ELSE IF pair.forward THEN CHOOSE j \in hits : \A k \in hits : j <= k
        ELSE CHOOSE j \in hits : \A k \in hits : j >= k

\* The line and the column of the 1-based place at of a text.
PlaceOf(r, at) ==
    LET line == CountOf(r, NL, 1, at - 1)
    IN  [line |-> line, col |-> at - 1 - line_to_char(r, line)]

\* C34: on a delimiter, % puts the cursor on the delimiter that balances it,
\* nested pairs of the same kind counted and lines crossed; with no balancing
\* delimiter, or off a delimiter, the cursor stays.
C34_PercentFindsBalancingDelimiter ==
    (~fatal /\ mode = "Normal" /\ pending_op = None) =>
        LET e == handle_key(Editor, Ch("%"))
            on_char == cursor.col < Buffer_line_len(buffer, cursor.line)
            at == line_to_char(buffer.rope, cursor.line) + cursor.col + 1
            found == IF on_char THEN Balancing(buffer.rope, at) ELSE 0
        IN  /\ ~e.fatal
            /\ IF found > 0
               THEN /\ e.cursor.line = PlaceOf(buffer.rope, found).line
                    /\ e.cursor.col = PlaceOf(buffer.rope, found).col
               ELSE e.cursor = cursor

\* C34 witness: % has gone from the outer opener of a nested pair to its
\* closer, and the next % goes back.
C34_Witness ==
    /\ mode = "Normal"
    /\ buffer.rope = <<"(", "(", ")", ")">>
    /\ cursor.line = 0 /\ cursor.col = 3
    /\ handle_key(Editor, Ch("%")).cursor.col = 0
    /\ handle_key(handle_key(Editor, Ch("%")), Ch("%")).cursor.col = 3

\* The cursor a word motion leaves: what its loop returned.
ScanCursor == [line |-> scan.at.line, col |-> scan.at.col, sticky_col |-> scan.at.col]

\* What a loop that has returned hands back is what the call computes, on a
\* line of the buffer, without an index panic.
ScanReturned ==
    scan.at.done =>
        /\ ~scan.at.panic
        /\ scan.op = "w" => /\ scan.at.line < Buffer_line_count(buffer)
                            /\ Cursor_move_word_forward(cursor, buffer) = ScanCursor
        /\ scan.op = "b" => /\ scan.at.line < Buffer_line_count(buffer)
                            /\ ~Cursor_move_word_backward_panics(cursor, buffer)
                            /\ Cursor_move_word_backward(cursor, buffer) = ScanCursor
        /\ scan.op = "e" => /\ scan.at.line < Buffer_line_count(buffer)
                            /\ Cursor_move_word_end(cursor, buffer) = ScanCursor
        /\ scan.op = "%" =>
               find_matching_bracket(Editor) =
                   IF scan.at.found THEN SomePos(scan.at.line, scan.at.col) ELSE NoPos

\* C35: from every valid cursor position of every buffer, the loops of
\* move_word_forward, move_word_backward, move_word_end and of the bracket
\* scan come to their return, and the word motions return a line below
\* line_count().
C35_ScansTerminateOnALine ==
    /\ [](ScanReturned)
    /\ (scan.op # None) ~> scan.at.done

\* C35 witness: a word motion has returned after going round its loop over
\* an empty line, a line of blanks and the empty last line.
C35_Witness ==
    /\ buffer.rope = <<NL, SPACE, NL>>
    /\ cursor.line = 0 /\ cursor.col = 0
    /\ scan.op \in {"w", "e"}
    /\ scan.at.done
    /\ scan.at.line = 2

\* The cursor left at (line, col) and clamped to the buffer b.
ClampedTo(c, line, col, b) ==
    /\ c.line = Cursor_clamp([c EXCEPT !.line = line, !.col = col], b).line
    /\ c.col = Cursor_clamp([c EXCEPT !.line = line, !.col = col], b).col

\* What d and x must leave of the selection sel of the buffer b in the
\* Editor after: in Char mode the rope was prefix + removed + suffix with the
\* removed text, both ends included, in the unnamed register.
SelectionRemoved(b, sel, after) ==
    LET n == Selection_normalized(sel)
        from == line_to_char(b.rope, n[1]) + n[2]
        removed == after.registers.unnamed.text
    IN  /\ sel.mode = "Char" =>
              /\ removed = SelectedText(b, sel)
              /\ b.rope = Slice(b.rope, 0, from) \o removed
                              \o Slice(b.rope, from + Len(removed), Len(b.rope))
              /\ after.buffer.rope = Slice(b.rope, 0, from)
                                         \o Slice(b.rope, from + Len(removed), Len(b.rope))
              /\ ClampedTo(after.cursor, n[1], n[2], after.buffer)
        /\ sel.mode = "Line" => ClampedTo(after.cursor, n[1], 0, after.buffer)

\* C36: d and x in a visual mode remove exactly the selected span: in Char
\* mode the buffer before is prefix + removed text + suffix, the removed text,
\* both end columns included, is in the unnamed register and the buffer after
\* is prefix + suffix; the cursor is left at the normalized start of the
\* selection (column 0 in Line mode), clamped to the buffer.
C36_VisualDeleteRemovesSelectedSpan ==
    (IsVisual(mode) /\ ~fatal) =>
        \A key \in {Ch("d"), Ch("x")} :
            \E e \in {handle_key(Editor, key)} :
                ~e.fatal => SelectionRemoved(buffer, selection, e)

\* The selection mode of a visual editor mode; None for the other modes.
SelectionModeOf(m) ==
    CASE m = "Visual" -> "Char"
      [] m = "VisualLine" -> "Line"
      [] m = "VisualBlock" -> "Block"
      [] OTHER -> None

\* C37: in every state the key events reach, there is a selection exactly in
\* the modes Visual, VisualLine and VisualBlock, and its mode is Char, Line
\* and Block respectively.
C37_SelectionIffVisualMode ==
    ~fatal => selection.mode = SelectionModeOf(mode)

\* C37 witness: a selection stretched in one visual mode and switched to
\* another with V.
C37_Witness ==
    /\ ~fatal
    /\ mode = "VisualLine"
    /\ selection.mode = "Line"
    /\ selection.anchor_col # selection.cursor_col
    /\ handle_key(Editor, Ch("v")).mode = "Visual"
    /\ handle_key(Editor, Ch("v")).selection.mode = "Char"

\* C38: Enter on the command line wq or x makes handle_key return true only
\* with no unsaved change left, the content of a modified buffer written;
\* otherwise the editor stays open and reports why.
C38_WriteQuitNeverLosesChanges ==
    (~quit /\ mode = "Command" /\ trim(command_buffer) \in {<<"w", "q">>, <<"x">>}) =>
        \A write_ok \in BOOLEAN :
            \E r \in {command_enter(Editor, write_ok)} :
                /\ r.quit => /\ ~r.e.buffer.modified
                             /\ buffer.modified => (buffer.file_path # NoPath /\ write_ok)
                /\ ~r.quit => r.e.message # None

\* C39: after any calls of open_file, switch_to, next_buffer, prev_buffer
\* and close_current, the current index is below the number of buffers
\* whenever one is open; switch_to of an index out of the range returns an
\* error and changes nothing; next_buffer and prev_buffer change nothing
\* when no buffer is open.
C39_CurrentIndexWithinBuffers ==
    /\ buffer_manager.buffers # <<>> => buffer_manager.current < Len(buffer_manager.buffers)
    /\ \A idx \in Len(buffer_manager.buffers)..MaxBuffers + 1 :
           BufferManager_switch_to(buffer_manager, idx) = [m |-> buffer_manager, ok |-> FALSE]
    /\ buffer_manager.buffers = <<>> =>
           /\ BufferManager_next_buffer(buffer_manager) = buffer_manager
           /\ BufferManager_prev_buffer(buffer_manager) = buffer_manager

\* C39 witness: the last of two buffers is current and close_current moves
\* the index down to the buffer that is left.
C39_Witness ==
    /\ Len(buffer_manager.buffers) = 2
    /\ buffer_manager.buffers[1].file_path # buffer_manager.buffers[2].file_path
    /\ buffer_manager.current = 1
    /\ BufferManager_close_current(buffer_manager).current = 0
    /\ BufferManager_close_current(buffer_manager).buffers = <<buffer_manager.buffers[1]>>

\* The keys of the delete commands of Normal mode.
NormalDeleteCommands ==
    {<<Ch("x")>>, <<Ch("d"), Ch("d")>>, <<Ch("c"), Ch("c")>>, <<Ch("D")>>, <<Ch("C")>>}

RECURSIVE PressAll(_, _)
PressAll(e, keys) ==
    IF keys = <<>> THEN e ELSE PressAll(handle_key(e, Head(keys)), Tail(keys))

\* The registers `after` a delete command: slot 0 as `before`, and what the
\* command stored went through Registers::delete (slot 1 or the small-delete
\* register, and the unnamed register).
DeletePath(before, after) ==
    /\ after.numbered[1] = before.numbered[1]
    /\ after # before => after = Registers_delete(before, after.unnamed)

\* C40: no delete command (x, dd, cc, D, C, visual d and x) changes numbered
\* register 0, and each stores the removed text through the delete path
\* (slot 1 or the small-delete register) and in the unnamed register.
C40_DeletesLeaveSlotZero ==
    /\ (~fatal /\ IsVisual(mode)) =>
            \A key \in {Ch("d"), Ch("x")} :
                \E e \in {handle_key(Editor, key)} :
                    ~e.fatal => /\ e.registers.unnamed # NoContent
                                /\ DeletePath(registers, e.registers)
    /\ (~fatal /\ mode = "Normal" /\ pending_op = None
            /\ \A i \in 1..Len(buffer.rope) : buffer.rope[i] # EACUTE) =>
            \A keys \in NormalDeleteCommands :
                \E e \in {PressAll(Editor, keys)} : DeletePath(registers, e.registers)

====
